---- MODULE Spec2Model ----
(***************************************************************************)
(* A model of the podcast-thumbnail toolchain: the crop geometry of        *)
(* speaker_identification/cropper.py, the response validation of           *)
(* speaker_identification/gemini_identify.py, the retry loop of            *)
(* headshot_generation/gemini_client.py and the orchestration of           *)
(* orchestration_cli/pipeline.py.                                          *)
(*                                                                         *)
(* Each component has its own specification (SpecCrop, SpecHeadshot,       *)
(* SpecIdentify, SpecSample for extract_frames_with_gemini called on its   *)
(* own, Spec for run_end_to_end); a specification leaves the variables of  *)
(* the other components at their initial value.                            *)
(*                                                                         *)
(* Normalized coordinates (floats in the source) are exact rationals here, *)
(* held as integers in units of 1/Scale.  Scale is 200 times               *)
(* the input grid, so that every product with 0.35 and every halving the   *)
(* source computes is exact.                                               *)
(***************************************************************************)
EXTENDS Integers, Sequences, FiniteSets, TLC

VARIABLES cf, hs, idn, fs, run, gh

vars == <<cf, hs, idn, fs, run, gh>>

Max(a, b) == IF a >= b THEN a ELSE b

Min(a, b) == IF a <= b THEN a ELSE b

\* The value of a component's variable in a specification of another component.
Idle == [pc |-> "idle"]

notCrop == <<hs, idn, fs, run, gh>>

notHeadshot == <<cf, idn, fs, run, gh>>

notIdentify == <<cf, hs, fs, run, gh>>

(***************************************************************************)
(* ---------------- speaker_identification/cropper.py ----------------     *)
(***************************************************************************)

\* Input bboxes have their coordinates on the grid k/Grid, k in -1..Grid+1
\* (one grid step outside [0,1] on both sides).
Grid == 4

Scale == 200 * Grid

\* crop_frame's defaults: padding = 0.35, min_width = 0.35, min_height = 0.5.
padding == (35 * Scale) \div 100

min_width == (35 * Scale) \div 100

min_height == (50 * Scale) \div 100

\* Pixel sizes (width, height) of the frames the crop is taken from.
FrameSizes == {<<1, 1>>, <<64, 36>>, <<640, 360>>}

GridCoords == {(Scale \div Grid) * k : k \in (0 - 1)..(Grid + 1)}

\* The bbox the pipeline gives a synthesized candidate: x 0.2..0.8, y 0..1.
DefaultBBox == [x1 |-> (2 * Scale) \div 10, y1 |-> 0, x2 |-> (8 * Scale) \div 10, y2 |-> Scale]

BBoxes == [x1 : GridCoords, y1 : GridCoords, x2 : GridCoords, y2 : GridCoords] \cup {DefaultBBox}

NoBox == [x1 |-> 0, y1 |-> 0, x2 |-> 0, y2 |-> 0]

\* max(0.0, min(1.0, v))
Clamp01(v) == Max(0, Min(Scale, v))

ClampBox(b) == [x1 |-> Clamp01(b.x1), y1 |-> Clamp01(b.y1), x2 |-> Clamp01(b.x2), y2 |-> Clamp01(b.y2)]

\* A plausible slip: equal coordinates let through.
IsDegenerate_strict(b) == b.x2 < b.x1 \/ b.y2 < b.y1

\* if x2 <= x1 or y2 <= y1: raise ValueError("Invalid bbox coordinates")
IsDegenerate(b) == b.x2 <= b.x1 \/ b.y2 <= b.y1

\* Expand the bbox outward by the padding fraction, clamped to [0,1].
PadBox(b) ==
    LET pad_x == (padding * (b.x2 - b.x1)) \div Scale
        pad_y == (padding * (b.y2 - b.y1)) \div Scale
    IN  [x1 |-> Max(0, b.x1 - pad_x), y1 |-> Max(0, b.y1 - pad_y),
         x2 |-> Min(Scale, b.x2 + pad_x), y2 |-> Min(Scale, b.y2 + pad_y)]

\* w = max(x2 - x1, min_width); h = max(y2 - y1, min_height)
MinW(b) == Max(b.x2 - b.x1, min_width)

MinH(b) == Max(b.y2 - b.y1, min_height)

\* Enforce the minimum size around the centre, clamped to [0,1].
MinSizeBox(b) ==
    LET cx == (b.x1 + b.x2) \div 2
        cy == (b.y1 + b.y2) \div 2
        w == MinW(b)
        h == MinH(b)
    IN  [x1 |-> Max(0, cx - w \div 2), y1 |-> Max(0, cy - h \div 2),
         x2 |-> Min(Scale, cx + w \div 2), y2 |-> Min(Scale, cy + h \div 2)]

\* int(x * w) for a normalized x and a factor w, both in units of 1/Scale.
IntMul(x, w) == (x * w) \div (Scale * Scale)

\* box = (int(x1 * w), int(y1 * h), int(x2 * w), int(y2 * h))
PixelBox(b, w, h) ==
    [left |-> IntMul(b.x1, w), top |-> IntMul(b.y1, h),
     right |-> IntMul(b.x2, w), bottom |-> IntMul(b.y2, h)]

NoPixelBox == [left |-> 0, top |-> 0, right |-> 0, bottom |-> 0]

\* crop.size of img.crop(box) is (right - left, bottom - top).
IsEmptyCrop(p) == p.right - p.left <= 0 \/ p.bottom - p.top <= 0

\* The state of one crop_frame call.  w and h are the function's local
\* variables of that name, in units of 1/Scale: img.size first, and from the
\* minimum-size step on the normalized width and height.
CropInit ==
    \E b \in BBoxes, s \in FrameSizes :
        cf = [pc |-> "open", bbox |-> b, W |-> s[1], H |-> s[2],
              w |-> 0, h |-> 0, box |-> NoBox, padded |-> FALSE,
              px |-> NoPixelBox, err |-> "none", saved |-> FALSE]

\* out_dir.mkdir; img = Image.open(frame_path); w, h = img.size
CropOpen ==
    /\ UNCHANGED notCrop
    /\ cf.pc = "open"
    /\ cf' = [cf EXCEPT !.pc = "clamp", !.w = cf.W * Scale, !.h = cf.H * Scale]

\* Clamp the four coordinates and reject a degenerate box.
CropClamp ==
    /\ UNCHANGED notCrop
    /\ cf.pc = "clamp"
    /\ LET b == ClampBox(cf.bbox)
       IN  IF IsDegenerate(b)
           THEN cf' = [cf EXCEPT !.pc = "raised", !.box = b, !.err = "invalid_bbox"]
           ELSE cf' = [cf EXCEPT !.pc = "pad", !.box = b]

CropPad ==
    /\ UNCHANGED notCrop
    /\ cf.pc = "pad"
    /\ cf' = [cf EXCEPT !.pc = "minsize", !.box = PadBox(cf.box), !.padded = TRUE]

\* The minimum-size step assigns w and h, the names that held img.size.
CropMinSize ==
    /\ UNCHANGED notCrop
    /\ cf.pc = "minsize"
    /\ cf' = [cf EXCEPT !.pc = "pixels", !.box = MinSizeBox(cf.box),
                        !.w = MinW(cf.box), !.h = MinH(cf.box)]

\* box = (...); crop = img.crop(box); an empty crop raises.
CropPixels ==
    /\ UNCHANGED notCrop
    /\ cf.pc = "pixels"
    /\ LET p == PixelBox(cf.box, cf.w, cf.h)
       IN  IF IsEmptyCrop(p)
           THEN cf' = [cf EXCEPT !.pc = "raised", !.px = p, !.err = "empty_crop"]
           ELSE cf' = [cf EXCEPT !.pc = "save", !.px = p]

\* crop.save(out_path); return out_path
CropSave ==
    /\ UNCHANGED notCrop
    /\ cf.pc = "save"
    /\ cf' = [cf EXCEPT !.pc = "returned", !.saved = TRUE]

NextCrop ==
    \/ CropOpen
    \/ CropClamp
    \/ CropPad
    \/ CropMinSize
    \/ CropPixels
    \/ CropSave

InitCrop ==
    /\ hs = Idle
    /\ idn = Idle
    /\ fs = Idle
    /\ run = Idle
    /\ gh = Idle
    /\ CropInit

SpecCrop == InitCrop /\ [][NextCrop]_vars

(***************************************************************************)
(* ---------------- headshot_generation/gemini_client.py ----------------  *)
(***************************************************************************)

MAX_RETRIES == 3

RETRY_DELAY_S == 2

\* The largest num_images a call asks for, and the most images one response holds.
MaxNumImages == 2

MaxImages == 2

\* The most reference paths a call passes (no more than MAX_REFERENCE_IMAGES).
MaxRefs == 2

\* The most generate_headshot calls made on one out_dir.
MaxHsCalls == 2

\* What _cache_key gives for a call's inputs (model, prompt, aspect ratio,
\* size, count, crop flag, reference names and bytes): two input sets.
KeyIds == {"k1", "k2"}

\* A response of client.models.generate_content: the call raises (exc), or
\* returns a response with or without prompt_feedback.block_reason (block)
\* and with nimg inline images.
Responses ==
    {[exc |-> TRUE, block |-> FALSE, nimg |-> 0]}
        \cup [exc : {FALSE}, block : BOOLEAN, nimg : 0..MaxImages]

\* File names in out_dir: 0 is base_name ("headshot.png"), i > 0 is
\* "<stem>_<i>.<suffix>".
Fname(idx, num_images) == IF num_images > 1 THEN idx ELSE 0

\* candidate_paths = [out_dir / _fname(i) for i in range(1, max(1, num_images) + 1)]
CandidatePaths(num_images) == [i \in 1..Max(1, num_images) |-> Fname(i, num_images)]

Range(f) == {f[i] : i \in DOMAIN f}

\* if use_cache and all(p.exists() for p in candidate_paths)
HsCacheHit(use_cache, num_images, files) ==
    use_cache /\ Range(CandidatePaths(num_images)) \subseteq files

\* A plausible slip: the remote call sits in a try/except that takes an
\* exception for an answer without images, which the loop then retries.
HsCallRaises_caught(resp) == FALSE

\* client.models.generate_content (lines 231-235) is called outside any try:
\* its exception leaves generate_headshot.
HsCallRaises(resp) == resp.exc

\* A plausible slip: the block indicator is not looked at.
HsIsBlocked_never(resp) == FALSE

\* getattr(response, "prompt_feedback", None) and getattr(..., "block_reason", None)
HsIsBlocked(resp) == resp.block

\* A plausible slip: a sleep after every attempt, the last one too.
HsBackoff_always(attempt) == <<[ev |-> "sleep", n |-> RETRY_DELAY_S * attempt]>>

\* if attempt < MAX_RETRIES: time.sleep(RETRY_DELAY_S * attempt)
HsBackoff(attempt) ==
    IF attempt < MAX_RETRIES
    THEN <<[ev |-> "sleep", n |-> RETRY_DELAY_S * attempt]>>
    ELSE <<>>

\* A plausible slip: the success break is missing.
HsAfterAttempt_nobreak(images, attempt) ==
    IF attempt < MAX_RETRIES THEN "attempt" ELSE "finish"

\* Where the loop goes after an attempt that was neither blocked nor raised:
\* break on images, the next attempt, or the end of range(1, MAX_RETRIES + 1).
HsAfterAttempt(images, attempt) ==
    IF images > 0 THEN "finish"
    ELSE IF attempt < MAX_RETRIES THEN "attempt" ELSE "finish"

HsNoResult == [kind |-> "none"]

HsRaise(err, resp_id) == [kind |-> "error", err |-> err, resp_id |-> resp_id]

HsReturn(paths) == [kind |-> "ok", paths |-> paths]

\* The state of one generate_headshot call.  files is the content of out_dir
\* (files0: when the call started); log is the sequence of remote calls and
\* sleeps; resps the responses received; last_error the response_id (the call
\* number) the last diagnostic was built from, 0 for None.  key is the cache
\* key of the call's inputs, made[f] the key of the call that wrote file f
\* ("pre": the file was there before the first call, "none": no file), calln
\* the number of the call.
HeadshotInit ==
    \E nrefs \in 0..MaxRefs, key \in BOOLEAN, refs_exist \in BOOLEAN,
       n \in 0..MaxNumImages, use_cache \in BOOLEAN, files \in SUBSET (0..MaxNumImages),
       k \in KeyIds :
        hs = [pc |-> "start", nrefs |-> nrefs, api_key |-> key, refs_exist |-> refs_exist,
              num_images |-> n, use_cache |-> use_cache,
              files0 |-> files, files |-> files, attempt |-> 0, images |-> 0,
              last_error |-> 0, log |-> <<>>, resps |-> <<>>, result |-> HsNoResult,
              key |-> k, calln |-> 1,
              made |-> [f \in 0..MaxNumImages |-> IF f \in files THEN "pre" ELSE "none"]]

\* Lines 185-225: argument checks, the cache lookup, loading the references.
HsStart ==
    /\ UNCHANGED notHeadshot
    /\ hs.pc = "start"
    /\ IF hs.nrefs = 0
       THEN hs' = [hs EXCEPT !.pc = "done", !.result = HsRaise("no_refs", 0)]
       ELSE IF ~hs.api_key
       THEN hs' = [hs EXCEPT !.pc = "done", !.result = HsRaise("no_api_key", 0)]
       ELSE IF HsCacheHit(hs.use_cache, hs.num_images, hs.files)
       THEN hs' = [hs EXCEPT !.pc = "done", !.result = HsReturn(CandidatePaths(hs.num_images))]
       ELSE IF ~hs.refs_exist
       THEN hs' = [hs EXCEPT !.pc = "done", !.result = HsRaise("ref_not_found", 0)]
       ELSE hs' = [hs EXCEPT !.pc = "attempt", !.attempt = 1]

\* One iteration of the retry loop, lines 230-257.
HsAttempt ==
    /\ UNCHANGED notHeadshot
    /\ hs.pc = "attempt"
    /\ \E resp \in Responses :
        LET id == Len(hs.resps) + 1
            called == [hs EXCEPT !.log = Append(@, [ev |-> "call", n |-> hs.attempt]),
                                 !.resps = Append(@, resp)]
        IN  IF HsCallRaises(resp)
            THEN hs' = [called EXCEPT !.pc = "done", !.result = HsRaise("exception", id)]
            ELSE IF HsIsBlocked(resp)
            THEN hs' = [called EXCEPT !.pc = "done", !.result = HsRaise("blocked", id)]
            ELSE IF resp.nimg > 0
            THEN hs' = [called EXCEPT !.pc = HsAfterAttempt(resp.nimg, hs.attempt),
                                      !.attempt = IF HsAfterAttempt(resp.nimg, hs.attempt) = "attempt"
                                                  THEN @ + 1 ELSE @,
                                      !.images = resp.nimg]
            ELSE hs' = [called EXCEPT !.pc = HsAfterAttempt(0, hs.attempt),
                                      !.attempt = IF HsAfterAttempt(0, hs.attempt) = "attempt"
                                                  THEN @ + 1 ELSE @,
                                      !.images = 0,
                                      !.last_error = id,
                                      !.log = called.log \o HsBackoff(hs.attempt)]

\* Lines 259-269: raise the last diagnostic, or save every image and return.
HsFinish ==
    /\ UNCHANGED notHeadshot
    /\ hs.pc = "finish"
    /\ IF hs.images = 0
       THEN hs' = [hs EXCEPT !.pc = "done", !.result = HsRaise("no_images", hs.last_error)]
       ELSE LET paths == [idx \in 1..hs.images |-> Fname(idx, hs.num_images)]
            IN  hs' = [hs EXCEPT !.pc = "done", !.files = @ \cup Range(paths),
                                 !.result = HsReturn(paths),
                                 !.made = [f \in DOMAIN hs.made |->
                                              IF f \in Range(paths) THEN hs.key ELSE hs.made[f]]]

\* The next call on the same out_dir, with the same or with changed inputs.
HsAgain ==
    /\ UNCHANGED notHeadshot
    /\ hs.pc = "done"
    /\ hs.calln < MaxHsCalls
    /\ \E k \in KeyIds :
        hs' = [hs EXCEPT !.pc = "start", !.key = k, !.calln = @ + 1, !.files0 = hs.files,
                         !.attempt = 0, !.images = 0, !.last_error = 0, !.log = <<>>,
                         !.resps = <<>>, !.result = HsNoResult]

NextHeadshot ==
    \/ HsStart
    \/ HsAttempt
    \/ HsFinish
    \/ HsAgain

InitHeadshot ==
    /\ cf = Idle
    /\ idn = Idle
    /\ fs = Idle
    /\ run = Idle
    /\ gh = Idle
    /\ HeadshotInit

SpecHeadshot == InitHeadshot /\ [][NextHeadshot]_vars

(***************************************************************************)
(* ------------- speaker_identification/gemini_identify.py -------------   *)
(***************************************************************************)

\* The response text is a sequence of tokens: "F" a run of three backticks,
\* "N" a newline, "J" the word json, and one token per JSON document:
\* "Vseq" a top-level list, "Vmap" a mapping without a speakers key, "Vspk" a
\* mapping whose speakers is a list, "Vstr" the mapping {"speakers": "not-a-list"}.
JsonValues == {"Vseq", "Vmap", "Vspk", "Vstr"}

Tokens == {"F", "N", "J"} \cup JsonValues

MaxTextLen == 5

Texts == UNION {[1..n -> Tokens] : n \in 0..MaxTextLen}

\* A response of generate_content: a blocked prompt has no candidates, so
\* its text is None; any other response carries any text.
IdResponses == {[block |-> TRUE, text |-> <<>>]} \cup [block : {FALSE}, text : Texts]

RECURSIVE LStrip(_, _)
\* t without its leading tokens of the set drop
LStrip(t, drop) ==
    IF t # <<>> /\ Head(t) \in drop THEN LStrip(Tail(t), drop) ELSE t

RECURSIVE RStrip(_, _)
\* t without its trailing tokens of the set drop
RStrip(t, drop) ==
    IF t # <<>> /\ t[Len(t)] \in drop THEN RStrip(SubSeq(t, 1, Len(t) - 1), drop) ELSE t

\* str.strip(): whitespace off both ends; str.strip("`"): backticks off both ends
Strip(t, drop) == RStrip(LStrip(t, drop), drop)

\* Lines 101-108: strip, remove the fence markers and a leading "json\n".
Unfence(raw) ==
    LET text == Strip(raw, {"N"})
    IN  IF text # <<>> /\ Head(text) = "F"
        THEN LET inner == Strip(text, {"F"})
             IN  IF Len(inner) >= 2 /\ inner[1] = "J" /\ inner[2] = "N"
                 THEN SubSeq(inner, 3, Len(inner))
                 ELSE inner
        ELSE text

\* json.loads: one document with whitespace around it, else it raises.
JsonLoads(text) ==
    LET t == Strip(text, {"N"})
    IN  IF Len(t) = 1 /\ t[1] \in JsonValues THEN t[1] ELSE "ParseError"

\* not (not isinstance(data, dict) or "speakers" not in data)
SchemaOk(data) == data \in {"Vspk", "Vstr"}

IdNoResult == [kind |-> "none"]

IdRaise(err) == [kind |-> "error", err |-> err]

IdReturn(data) == [kind |-> "ok", data |-> data]

NoResponse == [block |-> FALSE, text |-> <<>>]

\* The state of one identify_speakers call.
IdentifyInit ==
    \E path \in BOOLEAN, url \in BOOLEAN, key \in BOOLEAN, dry \in BOOLEAN :
        idn = [pc |-> "start", video_path |-> path, video_url |-> url, api_key |-> key,
               dry_run |-> dry, calls |-> 0, resp |-> NoResponse, text |-> <<>>,
               parsed |-> FALSE, data |-> "none", result |-> IdNoResult]

\* Lines 35-47: argument checks and the dry run.
IdStart ==
    /\ UNCHANGED notIdentify
    /\ idn.pc = "start"
    /\ IF ~(idn.video_path \/ idn.video_url)
       THEN idn' = [idn EXCEPT !.pc = "done", !.result = IdRaise("config")]
       ELSE IF idn.video_path /\ idn.video_url
       THEN idn' = [idn EXCEPT !.pc = "done", !.result = IdRaise("config")]
       ELSE IF ~idn.api_key
       THEN idn' = [idn EXCEPT !.pc = "done", !.result = IdRaise("config")]
       ELSE IF idn.dry_run
       THEN idn' = [idn EXCEPT !.pc = "done", !.result = IdReturn("dry_run")]
       ELSE idn' = [idn EXCEPT !.pc = "call"]

\* resp = client.models.generate_content(**generate_kwargs)
IdCall ==
    /\ UNCHANGED notIdentify
    /\ idn.pc = "call"
    /\ \E resp \in IdResponses :
        idn' = [idn EXCEPT !.pc = "parse", !.calls = @ + 1, !.resp = resp]

\* Lines 101-112: the text is unfenced and parsed.
IdParse ==
    /\ UNCHANGED notIdentify
    /\ idn.pc = "parse"
    /\ LET text == Unfence(idn.resp.text)
           data == JsonLoads(text)
       IN  IF data = "ParseError"
           THEN idn' = [idn EXCEPT !.pc = "done", !.text = text, !.parsed = TRUE,
                                   !.result = IdRaise("parse")]
           ELSE idn' = [idn EXCEPT !.pc = "schema", !.text = text, !.parsed = TRUE,
                                   !.data = data]

\* Lines 114-117: the schema check and the return.
IdSchema ==
    /\ UNCHANGED notIdentify
    /\ idn.pc = "schema"
    /\ IF SchemaOk(idn.data)
       THEN idn' = [idn EXCEPT !.pc = "done", !.result = IdReturn(idn.data)]
       ELSE idn' = [idn EXCEPT !.pc = "done", !.result = IdRaise("schema")]

NextIdentify ==
    \/ IdStart
    \/ IdCall
    \/ IdParse
    \/ IdSchema

InitIdentify ==
    /\ cf = Idle
    /\ hs = Idle
    /\ fs = Idle
    /\ run = Idle
    /\ gh = Idle
    /\ IdentifyInit

SpecIdentify == InitIdentify /\ [][NextIdentify]_vars

(***************************************************************************)
(* ------------------- orchestration_cli/pipeline.py -------------------   *)
(* Times are integers in ticks of 1/60 s.                                  *)
(***************************************************************************)

Secs(n) == 60 * n

HalfSec == Secs(1) \div 2

\* None, for a timestamp the model left out and for an unknown duration.
NoneT == 0 - 1

TTL_SECONDS == 24 * 60 * 60

\* A path of a frame file: <frames_dir>/<id>/frames/frame_<i>_<ts>.jpg; the
\* crop made from it has the same stem.
NoPath == [i |-> NoneT, ts |-> NoneT]

\* A candidate of a speaker: timestamp_s, bbox (has_bbox: present and truthy),
\* frame_path and crop_path (NoPath: the key is absent).
Cand(ts, has_bbox, bbox) ==
    [ts |-> ts, has_bbox |-> has_bbox, bbox |-> bbox, frame |-> NoPath, crop |-> NoPath]

\* for f in frames: skip ts None and, with a known duration, ts > duration - 0.5
FilterValid(frames, duration) ==
    SelectSeq(frames, LAMBDA f : f.ts # NoneT /\ ~(duration # NoneT /\ f.ts > duration - HalfSec))

\* A plausible slip: the step is duration / timestamps_per_speaker.
SynthTs_over_n(k, duration, n) == (duration * k) \div n

\* step * (i + 1) with step = duration / (timestamps_per_speaker + 1)
SynthTs(k, duration, n) == (duration * k) \div (n + 1)

\* Lines 104-116: pad with evenly spaced timestamps and the default bbox.
PadFrames(valid, duration, n) ==
    IF Max(0, n - Len(valid)) # 0 /\ duration # NoneT /\ duration # 0
    THEN valid \o [k \in 1..(n - Len(valid)) |-> Cand(SynthTs(k, duration, n), TRUE, DefaultBBox)]
    ELSE valid

\* valid_frames[:timestamps_per_speaker]
Truncate(frames, n) == SubSeq(frames, 1, Min(n, Len(frames)))

ValidFrames(frames, duration, n) == Truncate(PadFrames(FilterValid(frames, duration), duration, n), n)

\* frame_sampler.sample_frames: the frames of the timestamps ffmpeg could
\* extract (ok: their positions in the request), in request order.
SampleFrames(ts_list, ok) ==
    SelectSeq([idx \in 1..Len(ts_list) |-> [i |-> idx - 1, ts |-> ts_list[idx]]],
              LAMBDA q : (q.i + 1) \in ok)

\* What crop_frame does with a bbox on a frame of pixel size <<W, H>>.
CropOutcome(bbox, size) ==
    LET b == ClampBox(bbox)
    IN  IF IsDegenerate(b) THEN "invalid_bbox"
        ELSE LET m == PadBox(b)
             IN  IF IsEmptyCrop(PixelBox(MinSizeBox(m), MinW(m), MinH(m)))
                 THEN "empty_crop" ELSE "ok"

\* A plausible slip: the try/except around crop_frame is missing, and the
\* first frame whose crop raises ends the call.
CropAborts_uncaught(valid, extracted, size) ==
    \E j \in 1..Min(Len(valid), Len(extracted)) :
        valid[j].has_bbox /\ CropOutcome(valid[j].bbox, size) # "ok"

\* Lines 127-132: except Exception: pass.  No failure of crop_frame leaves
\* the loop.
CropAborts(valid, extracted, size) == FALSE

\* A plausible slip: frame_path is recorded only once the crop succeeded or
\* was not asked for.
AttachFrames_after_crop(valid, extracted, size) ==
    [j \in 1..Len(valid) |->
        IF j <= Len(extracted)
        THEN IF ~valid[j].has_bbox
             THEN [valid[j] EXCEPT !.frame = extracted[j]]
             ELSE IF CropOutcome(valid[j].bbox, size) = "ok"
             THEN [valid[j] EXCEPT !.frame = extracted[j], !.crop = extracted[j]]
             ELSE valid[j]
        ELSE valid[j]]

\* Lines 123-132: zip(valid_frames, extracted), and the crop of each frame.
AttachFrames(valid, extracted, size) ==
    [j \in 1..Len(valid) |->
        IF j <= Len(extracted)
        THEN [valid[j] EXCEPT !.frame = extracted[j],
                              !.crop = IF valid[j].has_bbox /\ CropOutcome(valid[j].bbox, size) = "ok"
                                       THEN extracted[j] ELSE NoPath]
        ELSE valid[j]]

\* speaker.get("id", "speaker")
SpkId(speaker) == IF speaker.id = "none" THEN "speaker" ELSE speaker.id

\* --- one speaker's pass through the loop body of extract_frames_with_gemini ---

\* The most candidates the model's answer gives one speaker, and the largest
\* timestamps_per_speaker.
MaxCands == 2

MaxTps == 4

notRun == <<cf, hs, idn, fs, gh>>

\* The timestamps of the model's candidates: None, one before the start, two
\* inside every video of 20 s or more and one past the end of the 20 s one.
CandTimes == {NoneT, Secs(0 - 5), Secs(10), Secs(30), Secs(100)}

\* The videos' durations (ffprobe's answer; NoneT when it fails): 1 s, 20 s
\* and 100 s.
Durations == {NoneT, Secs(1), Secs(20), Secs(100)}

WholeBBox == [x1 |-> 0, y1 |-> 0, x2 |-> Scale, y2 |-> Scale]

\* The candidates of the model's answer: without a bbox, or with one.
ModelCands ==
    {Cand(ts, FALSE, NoBox) : ts \in CandTimes}
        \cup {Cand(ts, TRUE, b) : ts \in CandTimes,
                                  b \in {WholeBBox, [x1 |-> Scale \div 4, y1 |-> Scale \div 4,
                                                     x2 |-> Scale \div 2, y2 |-> Scale \div 2]}}

ModelFrameLists == UNION {[1..m -> ModelCands] : m \in 0..MaxCands}

\* The loop body for one speaker: frames is speaker["frames"] as the model
\* gave it, n is timestamps_per_speaker, size the pixel size of the video's
\* frames; filtered, valid, extracted and out are the lists the body builds.
ExtractInit ==
    \E frames \in ModelFrameLists, duration \in Durations, n \in 1..MaxTps, size \in FrameSizes :
        run = [pc |-> "filter", frames |-> frames, duration |-> duration, n |-> n,
               size |-> size, filtered |-> <<>>, valid |-> <<>>, ok |-> {},
               extracted |-> <<>>, out |-> <<>>]

\* Lines 95-102.
ExFilter ==
    /\ UNCHANGED notRun
    /\ run.pc = "filter"
    /\ run' = [run EXCEPT !.pc = "pad", !.filtered = FilterValid(run.frames, run.duration)]

\* Lines 104-119: pad, truncate, speaker["frames"] = valid_frames.
ExPad ==
    /\ UNCHANGED notRun
    /\ run.pc = "pad"
    /\ run' = [run EXCEPT !.pc = "ffmpeg",
                          !.valid = Truncate(PadFrames(run.filtered, run.duration, run.n), run.n)]

\* Lines 121-122: ffmpeg serves the requests at the positions in ok.
ExSample ==
    /\ UNCHANGED notRun
    /\ run.pc = "ffmpeg"
    /\ \E ok \in SUBSET (1..Len(run.valid)) :
        run' = [run EXCEPT !.pc = "attach", !.ok = ok,
                           !.extracted = SampleFrames([j \in 1..Len(run.valid) |-> run.valid[j].ts], ok)]

\* Lines 123-132.
ExAttach ==
    /\ UNCHANGED notRun
    /\ run.pc = "attach"
    /\ IF CropAborts(run.valid, run.extracted, run.size)
       THEN run' = [run EXCEPT !.pc = "raised"]
       ELSE run' = [run EXCEPT !.pc = "done",
                               !.out = AttachFrames(run.valid, run.extracted, run.size)]

NextExtract ==
    \/ ExFilter
    \/ ExPad
    \/ ExSample
    \/ ExAttach

InitExtract ==
    /\ cf = Idle
    /\ hs = Idle
    /\ idn = Idle
    /\ fs = Idle
    /\ gh = Idle
    /\ ExtractInit

SpecExtract == InitExtract /\ [][NextExtract]_vars

\* --- the filesystem, the requests and the model's answers ---

\* The most speakers the identification model names, and the most calls of
\* run_end_to_end one behaviour makes.
MaxSpeakers == 3

MaxRuns == 2

PipeDuration == Secs(100)

TightBBox == [x1 |-> Scale \div 4, y1 |-> Scale \div 4, x2 |-> Scale \div 2, y2 |-> Scale \div 2]

\* The frames list a speaker comes with in the model's answer: one candidate
\* with a bbox, which ffmpeg then extracts or fails to.
PipeFrameLists == { <<Cand(Secs(10), TRUE, TightBBox)>> }

\* "none": the speaker has no id key.
PipeIds == {"a", "none"}

PipeSpeakers == [id : PipeIds, frames : PipeFrameLists]

PipeManifests == UNION {[1..n -> PipeSpeakers] : n \in 0..MaxSpeakers}

\* The identification responses of the pipeline's calls.
PipeResponses ==
    { [block |-> TRUE, text |-> <<>>],
      [block |-> FALSE, text |-> <<"F", "J", "N", "Vspk", "F">>],
      [block |-> FALSE, text |-> <<"Vstr">>],
      [block |-> FALSE, text |-> <<"Vmap">>] }

\* The bytes of a generated image.
ImageBytes == {"x", "y"}

NoBytes == ""

SpeakerDirs == {SpkId([id |-> i]) : i \in PipeIds}

NoData == [kind |-> "none", speakers |-> <<>>, note |-> FALSE]

NoManifest == [state |-> "absent", age |-> 0, data |-> NoData]

NoKey == <<>>

\* The parameters of a run_end_to_end call.  api_key says where the key is:
\* in the api_key argument or in the environment.
RunParams ==
    [entry : {"run"}, video : {"path"}, title : {"t1", "t2"}, dry_run : BOOLEAN,
     api_key : {"arg", "env"}, tps : {1}]

\* The parameters of an extract_frames_with_gemini call of the sample command.
SampleParams ==
    [entry : {"sample"}, video : {"path", "url"}, title : {"t1"}, dry_run : BOOLEAN,
     api_key : {"none", "env"}, tps : {1}]

NoCalls == [identify |-> 0, headshot |-> 0, compose |-> 0]

NoOut == [manifest |-> FALSE, headshots |-> <<>>, thumbnail |-> NoKey, warning |-> FALSE]

\* No compose_thumbnail call has been made.
NoArgs == [text |-> "", headshots |-> <<>>]

IdleRun ==
    [pc |-> "idle", params |-> [entry |-> "run", video |-> "path", title |-> "t1",
                                dry_run |-> FALSE, api_key |-> "env", tps |-> 1],
     data |-> NoData, k |-> 0, hpaths |-> <<>>, steps |-> <<>>, out |-> NoOut,
     duration |-> NoneT, calls |-> NoCalls, error |-> "none", seen |-> NoManifest,
     lookup |-> "none", identified |-> 0, writes |-> 0, hlog |-> <<>>,
     compose_args |-> NoArgs]

NoPrev == [complete |-> FALSE, params |-> IdleRun.params, out |-> NoOut]

EmptyFs ==
    [manifest |-> NoManifest, headshots |-> [d \in SpeakerDirs |-> NoBytes], thumbs |-> {}]

\* --- extract_frames_with_gemini ---

\* A plausible slip: the boundary age is stale.
ManifestFresh_strict(age) == age < TTL_SECONDS

\* if age <= TTL_SECONDS
ManifestFresh(age) == age <= TTL_SECONDS

\* A plausible slip: the stored manifest is never taken, every call recomputes.
CacheLookup_never(dry_run, manifest) == "miss"

\* A plausible slip: the unreadable manifest's exception is not caught.
CacheLookup_uncaught(dry_run, manifest) ==
    IF ~dry_run /\ manifest.state # "absent" /\ ManifestFresh(manifest.age)
    THEN IF manifest.state = "ok" THEN "hit" ELSE "error"
    ELSE "miss"

\* Lines 62-68: "hit" returns the stored manifest, "unreadable" and "miss"
\* fall through to identify_speakers.
CacheLookup(dry_run, manifest) ==
    IF ~dry_run /\ manifest.state # "absent" /\ ManifestFresh(manifest.age)
    THEN IF manifest.state = "ok" THEN "hit" ELSE "unreadable"
    ELSE "miss"

\* identify_speakers as one call (api_key or os.getenv, the dry run, the
\* validation of the response).
IdentifyResult(params, resp) ==
    IF params.api_key = "none" THEN IdRaise("config")
    ELSE IF params.dry_run THEN IdReturn("dry_run")
    ELSE LET data == JsonLoads(Unfence(resp.text))
         IN  IF data = "ParseError" THEN IdRaise("parse")
             ELSE IF ~SchemaOk(data) THEN IdRaise("schema")
             ELSE IdReturn(data)

\* Lines 61-68: the manifest cache.
SampleCacheCheck ==
    /\ UNCHANGED <<cf, hs, idn, fs, gh>>
    /\ run.pc = "cache"
    /\ LET look == CacheLookup(run.params.dry_run, fs.manifest)
           seen == [run EXCEPT !.seen = fs.manifest, !.lookup = look]
       IN  CASE look = "hit" -> run' = [seen EXCEPT !.pc = "sampled", !.data = fs.manifest.data]
             [] look = "error" -> run' = [seen EXCEPT !.pc = "failed", !.error = "cache_read"]
             [] OTHER -> run' = [seen EXCEPT !.pc = "identify"]

\* A plausible slip: the manifest is written before the frames are extracted.
AfterIdentify_write_first(video) == "write"

\* Lines 84-135: with a local video the extraction loop comes before the
\* write, without one only the note is set.
AfterIdentify(video) == IF video = "path" THEN "extract" ELSE "write"

\* Lines 70-86: identify_speakers, the dry run's return, ffprobe's duration
\* (NoneT when ffprobe fails).
SampleIdentify ==
    /\ UNCHANGED <<cf, hs, idn, fs, gh>>
    /\ run.pc = "identify"
    /\ \E resp \in PipeResponses, speakers \in PipeManifests, duration \in {NoneT, PipeDuration} :
        LET res == IdentifyResult(run.params, resp)
            remote == IF run.params.api_key # "none" /\ ~run.params.dry_run THEN 1 ELSE 0
            called == [run EXCEPT !.identified = @ + 1, !.calls.identify = @ + remote]
            listed == res.kind = "ok" /\ res.data = "Vspk"
        IN  /\ listed \/ speakers = <<>>
            /\ (listed /\ run.params.video = "path") \/ duration = NoneT
            /\ IF res.kind = "error"
               THEN run' = [called EXCEPT !.pc = "failed", !.error = res.err]
               ELSE IF run.params.dry_run
               THEN run' = [called EXCEPT !.pc = "sampled",
                                          !.data = [NoData EXCEPT !.kind = "dry_run"]]
               ELSE run' = [called EXCEPT
                               !.pc = AfterIdentify(run.params.video),
                               !.k = 1,
                               !.duration = duration,
                               !.data = [kind |-> res.data, speakers |-> speakers,
                                         note |-> run.params.video # "path"]]

\* Lines 87-132 for the speaker at position k: filter and pad the candidates,
\* extract the frames (ok: the requests ffmpeg serves), crop them.
SampleExtractSpeaker ==
    /\ UNCHANGED <<cf, hs, idn, fs, gh>>
    /\ run.pc = "extract"
    /\ IF run.data.kind # "Vspk"
       THEN \* iterating a string: speaker.get raises AttributeError
            run' = [run EXCEPT !.pc = "failed", !.error = "attribute_error"]
       ELSE IF run.k > Len(run.data.speakers)
       THEN run' = [run EXCEPT !.pc = "write"]
       ELSE \E ok \in SUBSET (1..run.params.tps), size \in FrameSizes :
            LET speaker == run.data.speakers[run.k]
                valid == ValidFrames(speaker.frames, run.duration, run.params.tps)
                ts_list == [j \in 1..Len(valid) |-> valid[j].ts]
                extracted == SampleFrames(ts_list, ok)
                frames == AttachFrames(valid, extracted, size)
            IN  /\ ok \subseteq 1..Len(valid)
                /\ IF CropAborts(valid, extracted, size)
                   THEN run' = [run EXCEPT !.pc = "failed", !.error = "crop_error"]
                   ELSE run' = [run EXCEPT !.k = @ + 1, !.data.speakers[run.k].frames = frames]

\* Lines 137-138: the manifest is written and returned.
SampleWrite ==
    /\ UNCHANGED <<cf, hs, idn, gh>>
    /\ run.pc = "write"
    /\ fs' = [fs EXCEPT !.manifest = [state |-> "ok", age |-> 0, data |-> run.data]]
    /\ run' = [run EXCEPT !.pc = "sampled", !.writes = @ + 1]

\* --- the sample command: extract_frames_with_gemini called on its own ---

SampleStart ==
    /\ UNCHANGED <<cf, hs, idn, fs, gh>>
    /\ run.pc = "idle"
    /\ \E q \in SampleParams : run' = [IdleRun EXCEPT !.pc = "cache", !.params = q]

\* The call has returned ("sampled") or raised ("failed").
SampleReturn ==
    /\ UNCHANGED <<cf, hs, idn, fs, gh>>
    /\ run.params.entry = "sample"
    /\ run.pc \in {"sampled", "failed"}
    /\ run' = IdleRun

\* Between two calls time passes.
NextAge(age) == IF age = 0 THEN TTL_SECONDS ELSE age + 1

EnvTick ==
    /\ UNCHANGED <<cf, hs, idn, run, gh>>
    /\ run.pc = "idle"
    /\ fs.manifest.state # "absent"
    /\ fs.manifest.age <= TTL_SECONDS
    /\ fs' = [fs EXCEPT !.manifest.age = NextAge(@)]

\* A writer killed half way leaves an unparsable manifest behind.
EnvCorruptManifest ==
    /\ UNCHANGED <<cf, hs, idn, run, gh>>
    /\ run.pc = "idle"
    /\ fs.manifest.state = "ok"
    /\ fs' = [fs EXCEPT !.manifest = [state |-> "corrupt", age |-> 0, data |-> NoData]]

NextSample ==
    \/ SampleStart
    \/ SampleCacheCheck
    \/ SampleIdentify
    \/ SampleExtractSpeaker
    \/ SampleWrite
    \/ SampleReturn
    \/ EnvTick
    \/ EnvCorruptManifest

InitSample ==
    /\ cf = Idle
    /\ hs = Idle
    /\ idn = Idle
    /\ gh = Idle
    /\ fs = EmptyFs
    /\ run = IdleRun

SpecSample == InitSample /\ [][NextSample]_vars

\* --- run_end_to_end ---

\* A plausible slip: the raw frame is taken whenever there is one.
CandRef_frame_first(f) ==
    IF f.frame # NoPath THEN [kind |-> "frame", path |-> f.frame]
    ELSE [kind |-> "crop", path |-> f.crop]

CandRef(f) ==
    IF f.crop # NoPath THEN [kind |-> "crop", path |-> f.crop]
    ELSE [kind |-> "frame", path |-> f.frame]

\* Lines 257-264: prefer crops, fall back to frames; max 3.
RefsOf(frames) ==
    LET usable == SelectSeq(frames, LAMBDA f : f.crop # NoPath \/ f.frame # NoPath)
    IN  [j \in 1..Min(3, Len(usable)) |-> CandRef(usable[j])]

\* A plausible slip: the existing headshot is not looked for.
HeadshotExists_never(headshots, id) == FALSE

\* existing_headshot.exists()
HeadshotExists(headshots, id) == headshots[id] # NoBytes

\* composer._cache_key: the title and, per headshot, its name (always
\* headshot.png) and bytes; the other parameters are the same in every run.
ComposeKey(title, shots, headshots) == <<title>> \o [j \in 1..Len(shots) |-> headshots[shots[j]]]

\* if use_cache and final_path.exists()
ComposeCacheHit(use_cache, key, thumbs) == use_cache /\ key \in thumbs

RunStart ==
    /\ UNCHANGED <<cf, hs, idn, fs>>
    /\ run.pc = "idle"
    /\ gh.runs < MaxRuns
    /\ \E q \in RunParams : run' = [IdleRun EXCEPT !.pc = "cache", !.params = q]
    /\ gh' = [gh EXCEPT !.runs = @ + 1]

\* Lines 234-239.
RunAfterSample ==
    /\ UNCHANGED <<cf, hs, idn, fs, gh>>
    /\ run.params.entry = "run"
    /\ run.pc = "sampled"
    /\ LET r == [run EXCEPT !.steps = Append(@, "sample"), !.out.manifest = TRUE]
       IN  IF run.params.dry_run
           THEN run' = [r EXCEPT !.pc = "done"]
           ELSE run' = [r EXCEPT !.pc = "headshots", !.k = 1, !.hpaths = <<>>]

\* The responses the headshot model gives the pipeline: the call raises, the
\* response is blocked, holds no image, holds one.
PipeHsResponses ==
    { [exc |-> TRUE, block |-> FALSE, nimg |-> 0],
      [exc |-> FALSE, block |-> TRUE, nimg |-> 0],
      [exc |-> FALSE, block |-> FALSE, nimg |-> 0],
      [exc |-> FALSE, block |-> FALSE, nimg |-> 1] }

\* The retry loop of generate_headshot (gemini_client.py lines 230-269) run to
\* its end from the given attempt, resps[i] being the answer to call i: the
\* result and the number of remote calls made.
RECURSIVE HsLoop(_, _)
HsLoop(resps, attempt) ==
    LET resp == resps[attempt]
    IN  IF HsCallRaises(resp)
        THEN [result |-> HsRaise("exception", attempt), calls |-> attempt]
        ELSE IF HsIsBlocked(resp)
        THEN [result |-> HsRaise("blocked", attempt), calls |-> attempt]
        ELSE IF HsAfterAttempt(resp.nimg, attempt) = "attempt"
        THEN HsLoop(resps, attempt + 1)
        ELSE IF resp.nimg = 0
        THEN [result |-> HsRaise("no_images", attempt), calls |-> attempt]
        ELSE [result |-> HsReturn([idx \in 1..resp.nimg |-> Fname(idx, 1)]), calls |-> attempt]

\* generate_headshot(refs, output_dir=out_dir, output_name="headshot.png",
\* api_key=api_key, use_cache=True) as the pipeline calls it: num_images is 1
\* and the only candidate path is out_dir/headshot.png.
GenerateHeadshot(nrefs, has_key, exists, resps) ==
    IF nrefs = 0 THEN [result |-> HsRaise("no_refs", 0), calls |-> 0]
    ELSE IF ~has_key THEN [result |-> HsRaise("no_api_key", 0), calls |-> 0]
    ELSE IF HsCacheHit(TRUE, 1, IF exists THEN {0} ELSE {})
    THEN [result |-> HsReturn(CandidatePaths(1)), calls |-> 0]
    ELSE HsLoop(resps, 1)

\* What the headshot loop did for one speaker: whether <id>/headshot.png was
\* there when the speaker was reached, what the loop did ("reuse", "skip",
\* "generate") and the remote calls it made.
HeadshotEv(id, existed, did, calls) == [id |-> id, existed |-> existed, did |-> did, calls |-> calls]

\* A plausible slip: the loop leaves out the last speaker.
LoopDone_early(k, speakers) == k >= Len(speakers)

\* for speaker in sample_result.get("speakers", []) is exhausted (line 243).
LoopDone(k, speakers) == k > Len(speakers)

\* Lines 243-280 for the speaker at position k.
RunHeadshotSpeaker ==
    /\ UNCHANGED <<cf, hs, idn, gh>>
    /\ run.pc = "headshots"
    /\ IF run.data.kind # "Vspk"
       THEN \* iterating a string: speaker.get raises AttributeError
            /\ run' = [run EXCEPT !.pc = "failed", !.error = "attribute_error"]
            /\ fs' = fs
       ELSE IF LoopDone(run.k, run.data.speakers)
       THEN /\ run' = [run EXCEPT !.pc = "after_headshots"]
            /\ fs' = fs
       ELSE LET speaker == run.data.speakers[run.k]
                id == SpkId(speaker)
                refs == RefsOf(speaker.frames)
                existed == fs.headshots[id] # NoBytes
            IN  IF HeadshotExists(fs.headshots, id)
                THEN /\ run' = [run EXCEPT !.k = @ + 1, !.hpaths = Append(@, id),
                                           !.hlog = Append(@, HeadshotEv(id, existed, "reuse", 0))]
                     /\ fs' = fs
                ELSE IF refs = <<>>
                THEN /\ run' = [run EXCEPT !.k = @ + 1,
                                           !.hlog = Append(@, HeadshotEv(id, existed, "skip", 0))]
                     /\ fs' = fs
                ELSE \E resps \in [1..MAX_RETRIES -> PipeHsResponses] :
                     LET g == GenerateHeadshot(Len(refs), run.params.api_key # "none",
                                               HeadshotExists(fs.headshots, id), resps)
                         r == [run EXCEPT !.calls.headshot = @ + g.calls,
                                          !.hlog = Append(@, HeadshotEv(id, existed, "generate", g.calls))]
                     IN  IF g.result.kind = "error"
                         THEN /\ run' = [r EXCEPT !.pc = "failed", !.error = g.result.err]
                              /\ fs' = fs
                         ELSE /\ run' = [r EXCEPT !.k = @ + 1, !.hpaths = Append(@, id)]
                              /\ \E bytes \in ImageBytes : fs' = [fs EXCEPT !.headshots[id] = bytes]

\* Lines 281-286.
RunAfterHeadshots ==
    /\ UNCHANGED <<cf, hs, idn, fs, gh>>
    /\ run.pc = "after_headshots"
    /\ LET r == [run EXCEPT !.out.headshots = run.hpaths, !.steps = Append(@, "headshots")]
       IN  IF Len(run.hpaths) < 2
           THEN run' = [r EXCEPT !.pc = "done", !.out.warning = TRUE]
           ELSE run' = [r EXCEPT !.pc = "compose"]

\* A plausible slip: the last two headshots are handed to the composer.
ComposeShots_last(hpaths) == SubSeq(hpaths, Len(hpaths) - 1, Len(hpaths))

\* headshot_paths[:2] (line 291)
ComposeShots(hpaths) == SubSeq(hpaths, 1, 2)

\* Lines 288-301 with composer.compose_thumbnail (which reads the key from
\* the environment only): the cache, the remote call, the save.
RunCompose ==
    /\ UNCHANGED <<cf, hs, idn, gh>>
    /\ run.pc = "compose"
    /\ LET shots == ComposeShots(run.hpaths)
           key == ComposeKey(run.params.title, shots, fs.headshots)
           called == [run EXCEPT !.compose_args = [text |-> run.params.title, headshots |-> shots]]
           finish(r) == [r EXCEPT !.pc = "done", !.out.thumbnail = key,
                                  !.steps = Append(@, "compose")]
       IN  IF run.params.api_key # "env"
           THEN /\ run' = [called EXCEPT !.pc = "failed", !.error = "config"]
                /\ fs' = fs
           ELSE IF ComposeCacheHit(TRUE, key, fs.thumbs)
           THEN /\ run' = finish(called)
                /\ fs' = fs
           ELSE \E answer \in {"image", "no_image", "exception"} :
                LET r == [called EXCEPT !.calls.compose = @ + 1]
                IN  IF answer = "image"
                    THEN /\ run' = finish(r)
                         /\ fs' = [fs EXCEPT !.thumbs = @ \cup {key}]
                    ELSE /\ run' = [r EXCEPT !.pc = "failed", !.error = answer]
                         /\ fs' = fs

\* What the caller of run_end_to_end gets: the summary of one of the return
\* statements (lines 239, 286, 301), or the exception that left the function,
\* the local summary being lost with the frame.
NoReturn == [kind |-> "none"]

Returned ==
    IF run.pc = "done" THEN [kind |-> "summary", steps |-> run.steps, out |-> run.out]
    ELSE IF run.pc = "failed" THEN [kind |-> "raised", error |-> run.error]
    ELSE NoReturn

\* run_end_to_end has returned ("done") or raised ("failed"); gh keeps what
\* the call was and returned, for the next call to be compared with.
RunReturn ==
    /\ UNCHANGED <<cf, hs, idn, fs>>
    /\ run.params.entry = "run"
    /\ run.pc \in {"done", "failed"}
    /\ gh' = [gh EXCEPT !.dirty = FALSE,
                        !.prev = [complete |-> Returned.kind = "summary"
                                               /\ run.steps = <<"sample", "headshots", "compose">>,
                                  params |-> run.params, out |-> run.out]]
    /\ run' = IdleRun

\* Between two calls a headshot file is deleted.
EnvDeleteHeadshot ==
    /\ UNCHANGED <<cf, hs, idn, run>>
    /\ run.pc = "idle"
    /\ gh.runs < MaxRuns
    /\ \E d \in SpeakerDirs :
        /\ fs.headshots[d] # NoBytes
        /\ fs' = [fs EXCEPT !.headshots[d] = NoBytes]
    /\ gh' = [gh EXCEPT !.dirty = TRUE]

Next ==
    \/ RunStart
    \/ SampleCacheCheck
    \/ SampleIdentify
    \/ SampleExtractSpeaker
    \/ SampleWrite
    \/ RunAfterSample
    \/ RunHeadshotSpeaker
    \/ RunAfterHeadshots
    \/ RunCompose
    \/ RunReturn
    \/ EnvDeleteHeadshot

Init ==
    /\ cf = Idle
    /\ hs = Idle
    /\ idn = Idle
    /\ fs = EmptyFs
    /\ run = IdleRun
    /\ gh = [runs |-> 0, dirty |-> FALSE, prev |-> NoPrev]

Spec == Init /\ [][Next]_vars

(***************************************************************************)
(* ------ _cache_key of gemini_client.py and of gemini_composer.py ------  *)
(* Strings and file contents are sequences of characters.  hashlib.sha256  *)
(* is taken as collision-free: a digest stands for the byte stream the     *)
(* hasher was fed, so two digests are equal exactly when the streams are.  *)
(***************************************************************************)

\* The most input files (references, headshots) of one call.
MaxKeyFiles == 2

\* The digest of a byte stream.
Sha256(stream) == stream

RECURSIVE Concat(_)
Concat(seqs) == IF seqs = <<>> THEN <<>> ELSE Head(seqs) \o Concat(Tail(seqs))

\* str(num_images), str(crop_square)
StrInt(n) == IF n = 1 THEN <<"1">> ELSE <<"2">>

StrBool(b) == IF b THEN <<"T", "r", "u", "e">> ELSE <<"F", "a", "l", "s", "e">>

\* A file argument: the directory and base name of its path, whether the
\* file exists and, if so, its bytes.  NoFile is None (no background, no
\* style reference).
KeyFile(dir, name, exists, bytes) == [dir |-> dir, name |-> name, exists |-> exists, bytes |-> bytes]

NoFile == [dir |-> "", name |-> <<>>, exists |-> FALSE, bytes |-> <<>>]

\* A plausible slip: the whole path goes into the hash, not the base name.
FileStream_fullpath(f) == <<f.dir>> \o f.name \o (IF f.exists THEN f.bytes ELSE <<>>)

\* hasher.update(path.name.encode()); hasher.update(path.read_bytes()), the
\* latter skipped on FileNotFoundError.
FileStream(f) == f.name \o (IF f.exists THEN f.bytes ELSE <<>>)

\* if background: ... / if style_reference: ...
OptFileStream(f) == IF f = NoFile THEN <<>> ELSE FileStream(f)

\* gemini_client._cache_key
cache_key_headshot(model, prompt, aspect_ratio, image_size, num_images, crop_square, reference_paths) ==
    Sha256(Concat(<<model, prompt, aspect_ratio, image_size, StrInt(num_images), StrBool(crop_square)>>)
           \o Concat([i \in 1..Len(reference_paths) |-> FileStream(reference_paths[i])]))

\* "|".join(highlight_words)
RECURSIVE JoinBar(_)
JoinBar(words) ==
    IF words = <<>> THEN <<>>
    ELSE IF Len(words) = 1 THEN words[1]
    ELSE words[1] \o <<"|">> \o JoinBar(Tail(words))

\* gemini_composer._cache_key
cache_key_composer(model, title_text, aspect_ratio, headshots, background, template, style_reference, highlight_words, prompt_signature) ==
    Sha256(Concat(<<model, title_text, aspect_ratio, template, JoinBar(highlight_words), prompt_signature>>)
           \o Concat([i \in 1..Len(headshots) |-> FileStream(headshots[i])])
           \o OptFileStream(background)
           \o OptFileStream(style_reference))

\* The input files of the calls: the same base name and bytes in two
\* directories, a longer name with no bytes (existing and missing), and one
\* more byte.
KeyFiles ==
    { KeyFile("d1", <<"a">>, TRUE, <<"b">>),
      KeyFile("d2", <<"a">>, TRUE, <<"b">>),
      KeyFile("d1", <<"a", "b">>, TRUE, <<>>),
      KeyFile("d1", <<"a", "b">>, FALSE, <<>>),
      KeyFile("d1", <<"a">>, TRUE, <<"b", "b">>) }

KeyFileLists == UNION {[1..m -> KeyFiles] : m \in 0..MaxKeyFiles}

\* The arguments of a gemini_client._cache_key call.
HeadshotKeyInputs ==
    [fn : {"headshot"}, model : {<<"a">>, <<"a", "b">>}, prompt : {<<"b">>, <<"b", "b">>},
     aspect_ratio : {<<"1", ":", "1">>}, image_size : {<<"1", "K">>}, num_images : {1},
     crop_square : {TRUE}, reference_paths : KeyFileLists]

\* The arguments of a gemini_composer._cache_key call.
ComposerKeyInputs ==
    [fn : {"composer"}, model : {<<"a">>}, title_text : {<<"b">>, <<"b", "b">>},
     aspect_ratio : {<<"1", "6", ":", "9">>}, headshots : KeyFileLists,
     background : {NoFile, KeyFile("d1", <<"a">>, TRUE, <<"b">>)},
     template : {<<"t">>}, style_reference : {NoFile},
     highlight_words : {<<>>, <<<<"b">>>>}, prompt_signature : {<<"s">>}]

\* _cache_key applied to the arguments of one call.
CacheKeyOf(a) ==
    IF a.fn = "headshot"
    THEN cache_key_headshot(a.model, a.prompt, a.aspect_ratio, a.image_size, a.num_images,
                            a.crop_square, a.reference_paths)
    ELSE cache_key_composer(a.model, a.title_text, a.aspect_ratio, a.headshots, a.background,
                            a.template, a.style_reference, a.highlight_words, a.prompt_signature)

NoDigest == <<"none">>

\* Two calls of the same _cache_key, with arguments a and b.
KeyInit ==
    \E ins \in {HeadshotKeyInputs, ComposerKeyInputs} :
        \E a \in ins, b \in ins :
            run = [pc |-> "first", a |-> a, b |-> b, ka |-> NoDigest, kb |-> NoDigest]

KeyFirst ==
    /\ UNCHANGED notRun
    /\ run.pc = "first"
    /\ run' = [run EXCEPT !.pc = "second", !.ka = CacheKeyOf(run.a)]

KeySecond ==
    /\ UNCHANGED notRun
    /\ run.pc = "second"
    /\ run' = [run EXCEPT !.pc = "done", !.kb = CacheKeyOf(run.b)]

NextKey ==
    \/ KeyFirst
    \/ KeySecond

InitKey ==
    /\ cf = Idle
    /\ hs = Idle
    /\ idn = Idle
    /\ fs = Idle
    /\ gh = Idle
    /\ KeyInit

SpecKey == InitKey /\ [][NextKey]_vars

(***************************************************************************)
(* ---- the headshot loop of run_end_to_end over a manifest left on disk ---- *)

\* The frame files of a speaker directory: frame_000_<10 s>.jpg,
\* frame_001_<20 s>.jpg and so on.
StoredPath(j) == [i |-> j - 1, ts |-> Secs(10 * j)]

\* Candidate j of a speaker as a manifest holds it: no frame_path, a
\* frame_path only, or a frame_path and a crop_path.
StoredCands(j) ==
    { [Cand(StoredPath(j).ts, TRUE, TightBBox) EXCEPT !.frame = p, !.crop = c] :
        p \in {NoPath, StoredPath(j)}, c \in {NoPath} } \cup
    { [Cand(StoredPath(j).ts, TRUE, TightBBox) EXCEPT !.frame = StoredPath(j), !.crop = StoredPath(j)] }

StoredFrameLists(n) == {frames \in [1..n -> UNION {StoredCands(j) : j \in 1..n}] :
                            \A j \in 1..n : frames[j] \in StoredCands(j)}

\* The manifests of an earlier run: a speaker "a" with one or two candidates,
\* then a speaker without id with one.
StoredManifests ==
    { <<[id |-> "a", frames |-> fa], [id |-> "none", frames |-> fb]>> :
        fa \in StoredFrameLists(1) \cup StoredFrameLists(2), fb \in StoredFrameLists(1) }

\* A file a manifest names: the speaker directory and the frame or crop in it.
StoredFile(id, ref) == [dir |-> id, kind |-> ref.kind, path |-> ref.path]

\* Every file named by a manifest.
NamedFiles(speakers) ==
    UNION { UNION { {StoredFile(SpkId(speakers[s]), [kind |-> "frame", path |-> speakers[s].frames[j].frame]) :
                        x \in IF speakers[s].frames[j].frame # NoPath THEN {1} ELSE {}} \cup
                    {StoredFile(SpkId(speakers[s]), [kind |-> "crop", path |-> speakers[s].frames[j].crop]) :
                        x \in IF speakers[s].frames[j].crop # NoPath THEN {1} ELSE {}} :
                    j \in 1..Len(speakers[s].frames) } :
            s \in 1..Len(speakers) }

\* _prepare_reference: Image.open(path) raises FileNotFoundError for a
\* reference whose file is not there.
PrepareFails(id, refs, files) == \E j \in 1..Len(refs) : StoredFile(id, refs[j]) \notin files

\* run_end_to_end reaches its headshot loop with the manifest of an earlier
\* run (returned by the fresh-manifest branch of extract_frames_with_gemini),
\* any subset of the files it names and any subset of the headshots on disk.
ResumeInit ==
    /\ cf = Idle /\ hs = Idle /\ idn = Idle /\ fs = Idle /\ gh = Idle
    /\ \E speakers \in StoredManifests :
       \E files \in SUBSET NamedFiles(speakers) :
       \E headshots \in [SpeakerDirs -> {NoBytes, "x"}] :
          run = [pc |-> "headshots", speakers |-> speakers, files |-> files,
                 headshots |-> headshots, k |-> 1, hpaths |-> <<>>, calls |-> 0,
                 refs |-> <<>>, error |-> "none"]

ResumeAt == run.pc = "headshots" /\ run.k <= Len(run.speakers)

\* Lines 248-251.
ResumeReuse ==
    /\ UNCHANGED notRun
    /\ ResumeAt
    /\ LET id == SpkId(run.speakers[run.k])
       IN  /\ HeadshotExists(run.headshots, id)
           /\ run' = [run EXCEPT !.k = @ + 1, !.hpaths = Append(@, id)]

\* Lines 254-266.
ResumeSkip ==
    /\ UNCHANGED notRun
    /\ ResumeAt
    /\ LET speaker == run.speakers[run.k]
       IN  /\ ~HeadshotExists(run.headshots, SpkId(speaker))
           /\ RefsOf(speaker.frames) = <<>>
           /\ run' = [run EXCEPT !.k = @ + 1]

\* Lines 267-280 with generate_headshot, which opens every reference
\* (gemini_client.py line 217) before its first remote call.
ResumeGenerate ==
    /\ UNCHANGED notRun
    /\ ResumeAt
    /\ LET speaker == run.speakers[run.k]
           id == SpkId(speaker)
           refs == RefsOf(speaker.frames)
       IN  /\ ~HeadshotExists(run.headshots, id)
           /\ refs # <<>>
           /\ IF PrepareFails(id, refs, run.files)
              THEN run' = [run EXCEPT !.pc = "failed", !.refs = refs, !.error = "file_not_found"]
              ELSE \E resps \in [1..MAX_RETRIES -> PipeHsResponses] :
                   LET g == GenerateHeadshot(Len(refs), TRUE, FALSE, resps)
                       r == [run EXCEPT !.calls = @ + g.calls, !.refs = refs]
                   IN  IF g.result.kind = "error"
                       THEN run' = [r EXCEPT !.pc = "failed", !.error = g.result.err]
                       ELSE \E bytes \in ImageBytes :
                            run' = [r EXCEPT !.k = @ + 1, !.hpaths = Append(@, id),
                                             !.headshots[id] = bytes]

\* Line 281: the loop is over.
ResumeEnd ==
    /\ UNCHANGED notRun
    /\ run.pc = "headshots"
    /\ run.k > Len(run.speakers)
    /\ run' = [run EXCEPT !.pc = "after_headshots"]

\* The most candidates of the speaker whose references are selected.
MaxStored == 4

\* The headshot loop reaches a manifest with one speaker of up to MaxStored
\* candidates, the files it names all there.
RefsInit ==
    /\ cf = Idle /\ hs = Idle /\ idn = Idle /\ fs = Idle /\ gh = Idle
    /\ \E frames \in UNION {StoredFrameLists(n) : n \in 0..MaxStored} :
       \E headshots \in [SpeakerDirs -> {NoBytes, "x"}] :
          LET speakers == <<[id |-> "a", frames |-> frames]>>
          IN  run = [pc |-> "headshots", speakers |-> speakers, files |-> NamedFiles(speakers),
                     headshots |-> headshots, k |-> 1, hpaths |-> <<>>, calls |-> 0,
                     refs |-> <<>>, error |-> "none"]

NextRefs == ResumeReuse \/ ResumeSkip \/ ResumeGenerate \/ ResumeEnd

InitRefs == RefsInit

SpecRefs == InitRefs /\ [][NextRefs]_vars

NextResume == ResumeReuse \/ ResumeSkip \/ ResumeGenerate \/ ResumeEnd

InitResume == ResumeInit

SpecResume == InitResume /\ [][NextResume]_vars

(* ---- identify_speakers: the upload of a large video and the wait for it ---- *)

\* for _ in range(60)
MaxPolls == 60

\* What client.files.get answers: a file state in either case, or it raises.
FileStates == {"ACTIVE", "active", "PROCESSING", "FAILED"}

\* str.upper() on the file states
Upper(state) == IF state = "active" THEN "ACTIVE" ELSE state

\* A plausible slip: the loop allows one more check.
PollMore_inclusive(checks) == checks <= MaxPolls

\* The for loop has another iteration to run.
PollMore(checks) == checks < MaxPolls

\* An identify_speakers call on a local video with a key and no dry run, at
\* line 54: large is size_bytes > 20 MB.
PollInit ==
    \E large \in BOOLEAN :
        idn = [pc |-> "video", large |-> large, checks |-> 0, idle |-> 0, sleeps |-> 0,
               last |-> "none", parts |-> 0, cached |-> FALSE, calls |-> 0,
               result |-> IdNoResult]

\* Lines 54-61: the small file goes inline, the large one is uploaded.
PollUpload ==
    /\ UNCHANGED notIdentify
    /\ idn.pc = "video"
    /\ IF idn.large
       THEN idn' = [idn EXCEPT !.pc = "poll"]
       ELSE idn' = [idn EXCEPT !.pc = "call", !.parts = 1]

\* Lines 63-72: one iteration of the loop, or its else clause.
PollCheck ==
    /\ UNCHANGED notIdentify
    /\ idn.pc = "poll"
    /\ IF PollMore(idn.checks)
       THEN \/ \E state \in FileStates :
                 LET r == [idn EXCEPT !.checks = @ + 1, !.last = state]
                 IN  IF Upper(state) = "ACTIVE"
                     THEN idn' = [r EXCEPT !.pc = "cache", !.parts = 1]
                     ELSE idn' = [r EXCEPT !.idle = @ + 1, !.sleeps = @ + 1]
            \/ idn' = [idn EXCEPT !.pc = "done", !.checks = @ + 1, !.last = "raised",
                                  !.result = IdRaise("exception")]
       ELSE idn' = [idn EXCEPT !.pc = "done", !.result = IdRaise("not_active")]

\* Lines 74-85: the explicit cache, whose failure is swallowed.
PollCache ==
    /\ UNCHANGED notIdentify
    /\ idn.pc = "cache"
    /\ \E made \in BOOLEAN : idn' = [idn EXCEPT !.pc = "call", !.cached = made]

\* Line 99: the generation call (what follows it is IdParse and IdSchema).
PollGenerate ==
    /\ UNCHANGED notIdentify
    /\ idn.pc = "call"
    /\ \E ok \in BOOLEAN :
        idn' = [idn EXCEPT !.pc = "done", !.calls = @ + 1,
                           !.result = IF ok THEN IdReturn("Vspk") ELSE IdRaise("parse")]

NextPoll == PollUpload \/ PollCheck \/ PollCache \/ PollGenerate

InitPoll == cf = Idle /\ hs = Idle /\ fs = Idle /\ run = Idle /\ gh = Idle /\ PollInit

\* The loop body always returns: the remote calls answer or raise, the sleep
\* lasts one second.
SpecPoll == InitPoll /\ [][NextPoll]_vars /\ WF_vars(NextPoll)

(* ------------------------------ Claims ------------------------------    *)
(***************************************************************************)

\* C1: when run_end_to_end returns or raises in a run that follows a run which
\* completed all three stages, with the same video, title and parameters, the
\* filesystem as that run left it and the manifest within its TTL, it has made
\* no remote call (identification, headshot generation, composition) and it
\* returns the manifest, headshot and thumbnail paths the first run returned.
C1_Idempotence ==
    ( /\ run.pc \in {"done", "failed"}
      /\ gh.prev.complete
      /\ ~gh.dirty
      /\ run.params = gh.prev.params
      /\ run.seen.age <= TTL_SECONDS )
        => /\ run.pc = "done"
           /\ run.calls = NoCalls
           /\ run.out = gh.prev.out

\* The calls of extract_frames_with_gemini that are past the cache lookup.
PastLookup == run.pc \notin {"idle", "cache"} /\ ~run.params.dry_run

\* What the call does after a stale, missing or unreadable manifest: it has
\* called identify_speakers once it is past the "identify" step.
Recomputes == run.lookup # "hit" /\ (run.pc # "identify" => run.identified = 1)

\* What the call does on a hit: identify_speakers is skipped and the stored
\* manifest is returned.
ReturnsStored ==
    /\ run.lookup = "hit"
    /\ run.identified = 0
    /\ run.pc = "sampled"
    /\ run.data = run.seen.data
    /\ fs.manifest = run.seen

\* C5 as stated: in a call that is not a dry run the stored manifest is
\* returned and identification skipped exactly when the manifest exists,
\* parses and its age is under 24h; at an age of 24h or more the call
\* identifies anew.
C5_TTLCacheStrict ==
    PastLookup =>
        IF run.seen.state = "ok" /\ run.seen.age < TTL_SECONDS
        THEN ReturnsStored
        ELSE Recomputes

\* C5, amended: in a call that is not a dry run the stored manifest is
\* returned and identification skipped exactly when the manifest exists,
\* parses and its age is at most 24h; at an age beyond 24h the call
\* identifies anew.
C5_TTLCache ==
    PastLookup =>
        IF run.seen.state = "ok" /\ run.seen.age <= TTL_SECONDS
        THEN ReturnsStored
        ELSE Recomputes

\* A manifest of age exactly 24h has been returned from the cache.
C5_Witness ==
    /\ PastLookup
    /\ run.seen.state = "ok"
    /\ run.seen.age = TTL_SECONDS
    /\ run.pc = "sampled"
    /\ run.lookup = "hit"

\* The call found an unparsable manifest no older than the TTL.
FoundCorrupt ==
    /\ PastLookup
    /\ run.seen.state = "corrupt"
    /\ run.seen.age <= TTL_SECONDS

\* C6: a manifest that exists and is fresh but does not parse never makes
\* extract_frames_with_gemini fail with the read error: the call goes on as
\* on a miss, identifies anew, and when it returns the manifest file holds
\* the manifest it computed.
C6_CorruptManifestIsMiss ==
    FoundCorrupt =>
        /\ run.error # "cache_read"
        /\ run.lookup \notin {"hit", "error"}
        /\ run.pc # "identify" => run.identified = 1
        /\ run.pc = "sampled" =>
              /\ run.writes = 1
              /\ fs.manifest = [state |-> "ok", age |-> 0, data |-> run.data]

\* A call that found a corrupt fresh manifest has returned a new one.
C6_Witness ==
    /\ FoundCorrupt
    /\ run.pc = "sampled"
    /\ run.writes = 1
    /\ fs.manifest.state = "ok"


\* A response without block indicator, without images (and no exception).
ZeroResp(r) == ~r.exc /\ ~r.block /\ r.nimg = 0

AllZero(resps) == \A i \in DOMAIN resps : ZeroResp(resps[i])

CallEv(k) == [ev |-> "call", n |-> k]

SleepEv(d) == [ev |-> "sleep", n |-> d]

ExhaustedLog == <<CallEv(1), SleepEv(2), CallEv(2), SleepEv(4), CallEv(3)>>

\* C2: when every remote call of generate_headshot returns zero images and no
\* block indicator, exactly 3 calls are issued, a sleep follows the first and
\* the second attempt only, of 2 s and then 4 s, and the error raised is the
\* diagnostic built from the third response.
C2_RetryExhaustion ==
    (hs.pc # "idle" /\ hs.resps # <<>> /\ AllZero(hs.resps)) =>
        /\ Len(hs.resps) <= 3
        /\ hs.log = SubSeq(ExhaustedLog, 1, Min(5, 2 * Len(hs.resps)))
        /\ Len(hs.resps) < 3 => hs.pc = "attempt"
        /\ hs.pc = "done" =>
            /\ Len(hs.resps) = 3
            /\ hs.result = [kind |-> "error", err |-> "no_images", resp_id |-> 3]
            /\ hs.files = hs.files0

C2_Witness ==
    /\ hs.pc = "done"
    /\ Len(hs.resps) = 3
    /\ AllZero(hs.resps)
    /\ hs.log = ExhaustedLog
    /\ hs.result.kind = "error"

\* C3: a response with a block indicator on attempt k (k in 1..3) ends
\* generate_headshot at once with the blocked error: it is the last response,
\* the k-th call is the last event (no sleep after it), and out_dir is as it
\* was when the call started.
C3_BlockedFailsAtOnce ==
    hs.pc # "idle" =>
        \A k \in DOMAIN hs.resps :
            (~hs.resps[k].exc /\ hs.resps[k].block) =>
                /\ k = Len(hs.resps)
                /\ hs.pc = "done"
                /\ hs.result = [kind |-> "error", err |-> "blocked", resp_id |-> k]
                /\ hs.log[Len(hs.log)] = CallEv(k)
                /\ Cardinality({j \in DOMAIN hs.log : hs.log[j].ev = "call"}) = k
                /\ hs.files = hs.files0

C3_Witness ==
    /\ hs.pc = "done"
    /\ Len(hs.resps) = 3
    /\ hs.resps[3].block
    /\ hs.result.kind = "error"
    /\ hs.result.err = "blocked"

\* C4: the first attempt k of generate_headshot whose response yields at least
\* one image ends the loop: it is the last response, the number of remote
\* calls is k, no sleep follows it, and the call returns the saved paths, also
\* after attempts 1..k-1 without images.
C4_SuccessShortCircuits ==
    hs.pc # "idle" =>
        \A k \in DOMAIN hs.resps :
            (~hs.resps[k].exc /\ ~hs.resps[k].block /\ hs.resps[k].nimg > 0) =>
                /\ k = Len(hs.resps)
                /\ hs.pc \in {"finish", "done"}
                /\ hs.log[Len(hs.log)] = CallEv(k)
                /\ Cardinality({j \in DOMAIN hs.log : hs.log[j].ev = "call"}) = k
                /\ hs.pc = "done" =>
                    /\ hs.result.kind = "ok"
                    /\ Len(hs.result.paths) = hs.resps[k].nimg
                    /\ \A j \in DOMAIN hs.result.paths : hs.result.paths[j] \in hs.files

C4_Witness ==
    /\ hs.pc = "done"
    /\ Len(hs.resps) = 3
    /\ ZeroResp(hs.resps[1])
    /\ ZeroResp(hs.resps[2])
    /\ hs.resps[3].nimg > 0
    /\ hs.result.kind = "ok"

\* C7: identify_speakers returns a parsed response only if it is a mapping
\* whose speakers key holds a sequence; every other parsed shape (not a
\* mapping, no speakers key, speakers bound to a string) ends in the schema
\* error.
C7_SchemaValidation ==
    (idn.pc = "done" /\ idn.parsed) =>
        /\ idn.result.kind = "ok" => idn.data = "Vspk"
        /\ idn.data \in {"Vseq", "Vmap", "Vstr"} => idn.result = [kind |-> "error", err |-> "schema"]

\* C8: a response that carries a content-block indicator makes
\* identify_speakers raise the blocked-content error before the text is
\* parsed: it never ends in a parse or schema error.
C8_BlockedBeforeParse ==
    (idn.pc # "idle" /\ idn.resp.block) =>
        /\ ~idn.parsed
        /\ idn.pc = "done" => idn.result = [kind |-> "error", err |-> "blocked"]

\* The bbox given to crop_frame is valid: 0 <= x1 < x2 <= 1, 0 <= y1 < y2 <= 1.
ValidInputBBox(b) ==
    /\ 0 <= b.x1 /\ b.x1 < b.x2 /\ b.x2 <= Scale
    /\ 0 <= b.y1 /\ b.y1 < b.y2 /\ b.y2 <= Scale

\* C9: for every valid bbox and every positive frame size W x H, crop_frame
\* succeeds and the rectangle it crops satisfies 0 <= left < right <= W and
\* 0 <= top < bottom <= H.
C9_CropSafety ==
    (cf.pc \in {"raised", "returned"} /\ ValidInputBBox(cf.bbox)) =>
        /\ cf.pc = "returned"
        /\ cf.err = "none"
        /\ 0 <= cf.px.left /\ cf.px.left < cf.px.right /\ cf.px.right <= cf.W
        /\ 0 <= cf.px.top /\ cf.px.top < cf.px.bottom /\ cf.px.bottom <= cf.H

\* v clamped into [0,1], written out for the claim.
InUnit(v) == IF v < 0 THEN 0 ELSE IF v > Scale THEN Scale ELSE v

DegenerateAfterClamp(b) ==
    InUnit(b.x2) <= InUnit(b.x1) \/ InUnit(b.y2) <= InUnit(b.y1)

\* C10: a bbox that is degenerate after clamping each coordinate into [0,1]
\* makes crop_frame raise the invalid-geometry error, before the padding is
\* applied and before a crop file is written.
C10_DegenerateRejected ==
    (cf.pc \notin {"idle", "open", "clamp"} /\ DegenerateAfterClamp(cf.bbox)) =>
        /\ cf.pc = "raised"
        /\ cf.err = "invalid_bbox"
        /\ ~cf.padded
        /\ ~cf.saved

C10_Witness ==
    /\ cf.pc = "raised"
    /\ cf.err = "invalid_bbox"
    /\ cf.bbox = [x1 |-> Scale \div 2, y1 |-> Scale \div 2, x2 |-> Scale \div 2, y2 |-> Scale \div 2]

\* C11: for every valid bbox the crop crop_frame produces spans the whole
\* frame height: its top is 0 and its bottom is H, whatever y1 and y2 are.
C11_FullHeight ==
    (cf.pc = "returned" /\ ValidInputBBox(cf.bbox)) =>
        /\ cf.px.top = 0
        /\ cf.px.bottom = cf.H

\* The bbox of a synthesized candidate, written out for the claim: x 0.2..0.8, y 0..1.
CenteredBBox == [x1 |-> Scale \div 5, y1 |-> 0, x2 |-> (4 * Scale) \div 5, y2 |-> Scale]

\* C12: with a known positive duration D and n requested timestamps, a
\* speaker with v < n candidates left after filtering ends with exactly n
\* candidates: the v survivors first, in their order, then n - v candidates
\* at k*D/(n+1), k = 1..n-v, each with the default centered bbox.
C12_Padding ==
    ( /\ run.pc \in {"ffmpeg", "attach", "done"}
      /\ run.duration > 0
      /\ Len(run.filtered) < run.n ) =>
        LET v == Len(run.filtered)
        IN  /\ Len(run.valid) = run.n
            /\ \A j \in 1..v : run.valid[j] = run.filtered[j]
            /\ \A k \in 1..(run.n - v) :
                  run.valid[v + k] = [ts |-> (k * run.duration) \div (run.n + 1),
                                      has_bbox |-> TRUE, bbox |-> CenteredBBox,
                                      frame |-> NoPath, crop |-> NoPath]

\* The example of the claim: n = 4, one survivor in a 100 s video, and
\* synthesized candidates at 20, 40 and 60 s.
C12_Witness ==
    /\ run.pc = "done"
    /\ run.n = 4
    /\ run.duration = Secs(100)
    /\ Len(run.filtered) = 1
    /\ Len(run.valid) = 4
    /\ run.valid[2].ts = Secs(20)
    /\ run.valid[3].ts = Secs(40)
    /\ run.valid[4].ts = Secs(60)

\* C13: in run_end_to_end every speaker whose <headshots_dir>/<id>/headshot.png
\* exists when the loop reaches the speaker gets no generation call, and the
\* existing file is that speaker's entry in the list of headshots, whatever
\* the speaker's frames and crops are.
C13_Resume ==
    /\ \A j \in 1..Len(run.hlog) :
          run.hlog[j].existed => (run.hlog[j].did = "reuse" /\ run.hlog[j].calls = 0)
    /\ run.pc = "after_headshots" =>
          LET kept == SelectSeq(run.hlog, LAMBDA e : e.did # "skip")
          IN  run.hpaths = [j \in 1..Len(kept) |-> kept[j].id]

\* A speaker without any usable frame whose headshot existed has been
\* given the existing file.
C13_Witness ==
    /\ run.pc = "after_headshots"
    /\ \E j \in 1..Len(run.hlog) :
          /\ run.hlog[j].existed
          /\ run.hlog[j].did = "reuse"
          /\ RefsOf(run.data.speakers[j].frames) = <<>>
          /\ run.hpaths[Len(run.hpaths)] = run.hlog[Len(run.hlog)].id

\* Two file arguments with the same base name and the same content.
SameFile(f, g) == f.name = g.name /\ f.exists = g.exists /\ (f.exists => f.bytes = g.bytes)

SameFiles(F, G) == Len(F) = Len(G) /\ \A i \in 1..Len(F) : SameFile(F[i], G[i])

SameOptFile(f, g) == (f = NoFile /\ g = NoFile) \/ (f # NoFile /\ g # NoFile /\ SameFile(f, g))

\* The two calls have identical scalar parameters and, in order, files of
\* identical base name and bytes.
SameKeyInputs(a, b) ==
    IF a.fn = "headshot"
    THEN /\ <<a.model, a.prompt, a.aspect_ratio, a.image_size, a.num_images, a.crop_square>>
              = <<b.model, b.prompt, b.aspect_ratio, b.image_size, b.num_images, b.crop_square>>
         /\ SameFiles(a.reference_paths, b.reference_paths)
    ELSE /\ <<a.model, a.title_text, a.aspect_ratio, a.template, a.highlight_words, a.prompt_signature>>
              = <<b.model, b.title_text, b.aspect_ratio, b.template, b.highlight_words, b.prompt_signature>>
         /\ SameFiles(a.headshots, b.headshots)
         /\ SameOptFile(a.background, b.background)
         /\ SameOptFile(a.style_reference, b.style_reference)

\* C14: two _cache_key calls (headshot or composer) with identical scalar
\* parameters and, in the same order, files of identical base name and bytes
\* return the identical digest, wherever the files lie.
C14_KeyDeterminism ==
    (run.pc = "done" /\ SameKeyInputs(run.a, run.b)) => run.ka = run.kb

\* Two calls on files of the same name and bytes in different directories.
C14_Witness ==
    /\ run.pc = "done"
    /\ SameKeyInputs(run.a, run.b)
    /\ run.a # run.b
    /\ run.a.fn = "headshot"
    /\ Len(run.a.reference_paths) = 2
    /\ run.ka = run.kb

\* The bytes _cache_key reads from a file argument (none from a missing file).
BytesRead(f) == IF f.exists THEN f.bytes ELSE <<>>

\* The file lists differ in their length, in a base name or in a byte.
FilesDiffer(F, G) ==
    \/ Len(F) # Len(G)
    \/ \E i \in 1..Len(F) : F[i].name # G[i].name \/ BytesRead(F[i]) # BytesRead(G[i])

\* The two calls differ in a scalar parameter, a file name or a file byte.
KeyInputsDiffer(a, b) ==
    IF a.fn = "headshot"
    THEN \/ <<a.model, a.prompt, a.aspect_ratio, a.image_size, a.num_images, a.crop_square>>
              # <<b.model, b.prompt, b.aspect_ratio, b.image_size, b.num_images, b.crop_square>>
         \/ FilesDiffer(a.reference_paths, b.reference_paths)
    ELSE \/ <<a.model, a.title_text, a.aspect_ratio, a.template, a.highlight_words, a.prompt_signature>>
              # <<b.model, b.title_text, b.aspect_ratio, b.template, b.highlight_words, b.prompt_signature>>
         \/ FilesDiffer(a.headshots, b.headshots)
         \/ FilesDiffer(<<a.background>>, <<b.background>>)
         \/ FilesDiffer(<<a.style_reference>>, <<b.style_reference>>)

\* C15: with a collision-free hash, two _cache_key calls whose inputs differ
\* in a scalar parameter, a file name or a file byte return different keys.
C15_KeySensitivity ==
    (run.pc = "done" /\ KeyInputsDiffer(run.a, run.b)) => run.ka # run.kb

\* C16: a generate_headshot call with use_cache=True that returns existing
\* files without a remote call returns only files written by a call with
\* the same cache-key inputs; a file an earlier call wrote from other inputs
\* is not returned as a hit.
C16_ContentAddressedHeadshots ==
    ( /\ hs.pc = "done"
      /\ hs.use_cache
      /\ hs.result.kind = "ok"
      /\ hs.resps = <<>> ) =>
        \A j \in DOMAIN hs.result.paths :
            hs.made[hs.result.paths[j]] \in KeyIds => hs.made[hs.result.paths[j]] = hs.key

\* C17: whatever subset of the requested timestamps ffmpeg fails to extract,
\* a candidate that ends up with a frame_path holds the frame extracted for
\* its own request (its position and timestamp_s), and a candidate whose
\* timestamp was not extracted has no frame_path.
C17_FrameAlignment ==
    run.pc = "done" =>
        \A j \in 1..Len(run.out) :
            /\ run.out[j].frame # NoPath =>
                  (j \in run.ok /\ run.out[j].frame = [i |-> j - 1, ts |-> run.out[j].ts])
            /\ j \notin run.ok => run.out[j].frame = NoPath

\* The call identified the speakers of a local video anew and is past the
\* extraction loop.
Extracted ==
    /\ run.pc \in {"write", "sampled"}
    /\ run.lookup # "hit"
    /\ ~run.params.dry_run
    /\ run.params.video = "path"
    /\ run.data.kind = "Vspk"

\* C18: a crop_frame that raises never makes extract_frames_with_gemini
\* fail; the candidate keeps its frame_path and has no crop_path, every
\* speaker is still gone through, and the manifest is written.
C18_CropFailureIsolated ==
    /\ run.error # "crop_error"
    /\ Extracted =>
          /\ run.k = Len(run.data.speakers) + 1
          /\ \A s \in 1..Len(run.data.speakers) :
                \A j \in 1..Len(run.data.speakers[s].frames) :
                    LET f == run.data.speakers[s].frames[j]
                    IN  /\ f.crop # NoPath => (f.frame # NoPath /\ f.crop = f.frame)
                        /\ ( /\ f.frame # NoPath
                             /\ \A size \in FrameSizes : CropOutcome(f.bbox, size) # "ok" )
                              => f.crop = NoPath
          /\ run.pc = "sampled" =>
                (run.writes = 1 /\ fs.manifest = [state |-> "ok", age |-> 0, data |-> run.data])

\* Two speakers whose frames were extracted and whose crops all raised; the
\* manifest is written.
C18_Witness ==
    /\ Extracted
    /\ run.pc = "sampled"
    /\ run.writes = 1
    /\ Len(run.data.speakers) >= 2
    /\ \A s \in 1..Len(run.data.speakers) :
          /\ Len(run.data.speakers[s].frames) = 1
          /\ run.data.speakers[s].frames[1].has_bbox
          /\ run.data.speakers[s].frames[1].frame # NoPath
          /\ run.data.speakers[s].frames[1].crop = NoPath

\* generate_headshot ended for a speaker with "Headshot generation blocked" or
\* "No images returned ... after retries" (gemini_client.py lines 240-245 and
\* 259-260).
HeadshotFailed == run.error \in {"blocked", "no_images"}

\* C19: when headshot generation fails for one speaker (blocked, or no images
\* after the retries), run_end_to_end is not aborted: the speakers after the
\* failed one are still processed and the run goes on to its summary, the
\* failed speaker being absent from the headshot list.
C19_HeadshotFailureIsolated ==
    HeadshotFailed =>
        /\ run.pc # "failed"
        /\ run.pc \in {"after_headshots", "compose", "done"} =>
              Len(run.hlog) = Len(run.data.speakers)

\* run_end_to_end is over, by a return or by an exception, after its sample
\* stage completed.
RunOverAfterSample ==
    /\ run.params.entry = "run"
    /\ run.pc \in {"done", "failed"}
    /\ Len(run.steps) >= 1

\* C20: every invocation of run_end_to_end, one in which the headshot or the
\* compose stage fails included, delivers to the caller a summary whose steps
\* list names exactly the stages completed before the failure.
C20_SummaryAlwaysDelivered ==
    RunOverAfterSample =>
        /\ Returned.kind = "summary"
        /\ Returned.steps = run.steps

\* run_end_to_end has gone past its headshot loop (line 281).
PastHeadshots ==
    /\ run.params.entry = "run"
    /\ "headshots" \in Range(run.steps)

\* The errors compose_thumbnail raises.
ComposeErrors == {"config", "no_image", "exception"}

\* C21: with fewer than two collected headshots no composition call is made,
\* nothing is raised and the summary carries the warning, no thumbnail and the
\* steps sample, headshots; with two or more the composition call gets the
\* first two collected headshots in speaker order and the title unchanged, and
\* on success the steps end with compose.
C21_ComposeGating ==
    PastHeadshots =>
        IF Len(run.hpaths) < 2
        THEN /\ run.pc = "done"
             /\ run.error = "none"
             /\ run.compose_args = NoArgs
             /\ run.calls.compose = 0
             /\ run.out.warning
             /\ run.out.thumbnail = NoKey
             /\ run.steps = <<"sample", "headshots">>
        ELSE /\ ~run.out.warning
             /\ run.pc \in {"compose", "done", "failed"}
             /\ run.pc = "compose" => run.compose_args = NoArgs
             /\ run.pc \in {"done", "failed"} =>
                   run.compose_args = [text |-> run.params.title,
                                       headshots |-> <<run.hpaths[1], run.hpaths[2]>>]
             /\ run.pc = "failed" => run.error \in ComposeErrors
             /\ run.pc = "done" =>
                   /\ run.steps = <<"sample", "headshots", "compose">>
                   /\ run.out.thumbnail # NoKey

C21_Witness ==
    /\ PastHeadshots
    /\ run.pc = "done"
    /\ Len(run.hpaths) = 3
    /\ run.hpaths[3] # run.hpaths[2]
    /\ run.calls.compose = 1

C21_WitnessWarning ==
    /\ PastHeadshots
    /\ run.pc = "done"
    /\ Len(run.hpaths) = 1
    /\ Len(run.data.speakers) >= 2

\* C22: whatever subset of the frame, crop and headshot files of an earlier
\* run is missing, the next run takes a missing crop or headshot as not yet
\* done and regenerates or falls back; it never fails because a path the
\* manifest records names a file that is not there.
C22_ToleratesMissingFiles == run.error # "file_not_found"

\* The wait for the uploaded file is over.
PollOver == idn.large /\ idn.pc \in {"cache", "call", "done"}

C23_Safe ==
    /\ idn.checks <= MaxPolls
    /\ idn.sleeps = idn.idle
    /\ idn.calls > 0 /\ idn.large => Upper(idn.last) = "ACTIVE"
    /\ PollOver =>
          \/ /\ Upper(idn.last) = "ACTIVE"
             /\ idn.checks = idn.idle + 1
             /\ idn.parts = 1
             /\ idn.pc = "done" => idn.calls = 1
          \/ /\ idn.result = IdRaise("not_active")
             /\ idn.checks = MaxPolls /\ idn.idle = MaxPolls
             /\ idn.calls = 0
          \/ /\ idn.result = IdRaise("exception")
             /\ idn.last = "raised"
             /\ idn.checks = idn.idle + 1
             /\ idn.calls = 0

\* C23: the polling loop of identify_speakers issues at most 60 status checks;
\* if none reports ACTIVE a fatal error is raised and no generation call is
\* issued; if check k is the first to report ACTIVE, polling stops after
\* exactly k checks and the generation call follows.  The call always ends.
C23_BoundedWait == []C23_Safe /\ <>(idn.pc = "done")

C23_Witness ==
    /\ idn.pc = "done"
    /\ idn.result = IdRaise("not_active")
    /\ idn.checks = MaxPolls

C23_WitnessActive ==
    /\ idn.pc = "done"
    /\ idn.calls = 1
    /\ idn.checks = MaxPolls
    /\ idn.last = "active"

\* crop_frame was called for candidate j of the speaker (lines 123-128: the
\* candidate got a frame from the zip and its bbox is truthy), and it raised.
CropAttempted(j) == j <= Len(run.extracted) /\ run.valid[j].has_bbox

CropFailed(j) == CropAttempted(j) /\ CropOutcome(run.valid[j].bbox, run.size) # "ok"

\* C24 as stated: in the candidates persisted for a speaker of a local video,
\* a candidate without crop_path is one whose crop was attempted and failed.
C24_AbsentCropMeansFailed ==
    run.pc = "done" =>
        \A j \in 1..Len(run.out) : run.out[j].crop = NoPath => CropFailed(j)

\* C24 amended: the absence of crop_path alone does not tell a failed attempt
\* from none, but the persisted candidate does: the crop was attempted and
\* failed exactly when the candidate has a frame_path and a bbox and no
\* crop_path, and it was never attempted exactly when the candidate has no
\* frame_path or no bbox.
C24_FailedCropDistinguishable ==
    run.pc = "done" =>
        \A j \in 1..Len(run.out) :
            LET f == run.out[j]
            IN  /\ CropFailed(j) <=> (f.crop = NoPath /\ f.frame # NoPath /\ f.has_bbox)
                /\ ~CropAttempted(j) <=> (f.frame = NoPath \/ ~f.has_bbox)
                /\ f.crop # NoPath => (CropAttempted(j) /\ ~CropFailed(j))

C24_Witness ==
    /\ run.pc = "done"
    /\ \E j \in 1..Len(run.out) : CropFailed(j)
    /\ \E j \in 1..Len(run.out) : run.out[j].frame = NoPath
    /\ \E j \in 1..Len(run.out) : run.out[j].crop # NoPath

\* floor(x * n) for a normalized x in units of 1/Scale and a pixel count n.
FloorPx(x, n) == (x * n) \div Scale

\* C25: the rectangle crop_frame passes to the image crop is (floor(x1*W),
\* floor(y1*H), floor(x2*W), floor(y2*H)), (x1, y1, x2, y2) being the final
\* normalized box and W, H the pixel width and height of the frame.
C25_PixelConversion ==
    (cf.pc \in {"save", "returned"} \/ (cf.pc = "raised" /\ cf.err = "empty_crop")) =>
        cf.px = [left |-> FloorPx(cf.box.x1, cf.W), top |-> FloorPx(cf.box.y1, cf.H),
                 right |-> FloorPx(cf.box.x2, cf.W), bottom |-> FloorPx(cf.box.y2, cf.H)]

\* C26: for every valid bbox, boxes touching a frame edge included, the final
\* normalized box of crop_frame lies within [0,1] on both axes and is at least
\* min_width wide and min_height high.
C26_MinimumSize ==
    (cf.pc \in {"pixels", "save", "returned"} /\ ValidInputBBox(cf.bbox)) =>
        /\ \A v \in {cf.box.x1, cf.box.x2, cf.box.y1, cf.box.y2} : 0 <= v /\ v <= Scale
        /\ cf.box.x2 - cf.box.x1 >= min_width
        /\ cf.box.y2 - cf.box.y1 >= min_height

\* C27: with a known duration D, every candidate stored for a speaker,
\* detected by the model or synthesized as padding, has
\* 0 <= timestamp_s <= D - 0.5, for every D > 0 and every count n >= 1.
C27_TimestampRange ==
    (run.pc \in {"ffmpeg", "attach", "done"} /\ run.duration # NoneT /\ run.duration > 0) =>
        \A j \in 1..Len(run.valid) :
            /\ 0 <= run.valid[j].ts
            /\ run.valid[j].ts <= run.duration - HalfSec

\* C28: after the extraction on a local video every speaker of the manifest
\* has exactly timestamps_per_speaker candidates (never more, never fewer,
\* never none), for any number of model detections and whether or not the
\* duration of the video could be determined.
C28_CandidateCount ==
    run.pc = "done" => (Len(run.out) = run.n /\ run.out # <<>>)

\* The candidates of the speaker whose references are selected, and those of
\* them that name a crop or a frame.
RefFrames == run.speakers[1].frames

Usable(j) == RefFrames[j].crop # NoPath \/ RefFrames[j].frame # NoPath

UsableUpTo(j) == Cardinality({i \in 1..j : Usable(i)})

\* C29: for a speaker without an existing headshot the reference list has at
\* most 3 entries, taken in candidate order, each the candidate's crop_path
\* when it has one and its frame_path otherwise (a raw frame only for a
\* candidate without a crop); a speaker with no reference causes no
\* generation call and no error and is left out of the headshot list.
C29_ReferenceSelection ==
    /\ (run.k = 2 /\ run.hpaths = <<>>) =>
          /\ \A j \in 1..Len(RefFrames) : ~Usable(j)
          /\ run.refs = <<>> /\ run.calls = 0 /\ run.error = "none"
    /\ (run.refs # <<>> \/ run.pc = "failed") =>
          /\ Len(run.refs) = Min(3, UsableUpTo(Len(RefFrames)))
          /\ Len(run.refs) >= 1
          /\ \A r \in 1..Len(run.refs) :
                \E j \in 1..Len(RefFrames) :
                    /\ Usable(j) /\ UsableUpTo(j) = r
                    /\ run.refs[r] = IF RefFrames[j].crop # NoPath
                                     THEN [kind |-> "crop", path |-> RefFrames[j].crop]
                                     ELSE [kind |-> "frame", path |-> RefFrames[j].frame]

\* Four candidates, the first without a crop and the second without crop or
\* frame: the references are the frame of the first and the crops of the
\* third and fourth.
C29_Witness ==
    /\ Len(RefFrames) = 4
    /\ run.k = 2
    /\ run.refs = <<[kind |-> "frame", path |-> StoredPath(1)],
                    [kind |-> "crop", path |-> StoredPath(3)],
                    [kind |-> "crop", path |-> StoredPath(4)]>>

C29_WitnessSkip ==
    /\ Len(RefFrames) = 2
    /\ run.k = 2
    /\ run.hpaths = <<>>
    /\ run.pc = "after_headshots"

\* The generate_headshot call missed its cache, called the model and returned
\* the paths it saved.
MissReturned ==
    /\ hs.pc = "done"
    /\ hs.use_cache
    /\ hs.num_images >= 1
    /\ hs.result.kind = "ok"
    /\ hs.resps # <<>>

\* C30: generate_headshot with use_cache and num_images = N skips the remote
\* call only when all N expected numbered files exist, and after a miss that
\* returns successfully all N expected files exist, so that the same call
\* repeated at once is a cache hit, for every N >= 1 and every number of
\* images the model returns.
C30_CacheCompleteness ==
    /\ (hs.pc = "done" /\ hs.result.kind = "ok" /\ hs.resps = <<>> /\ hs.num_images >= 1) =>
          (hs.use_cache /\ \A i \in 1..hs.num_images : Fname(i, hs.num_images) \in hs.files0)
    /\ MissReturned =>
          \A i \in 1..hs.num_images : Fname(i, hs.num_images) \in hs.files

\* An extract_frames_with_gemini call is under way or just over.
InSampleCall == run.pc \in {"identify", "extract", "write", "sampled", "failed"}

\* C31: on a cache miss the manifest file is written exactly once, after the
\* identification, the validation and all extraction and cropping; when the
\* identification or the validation fails, or on a dry run, the manifest
\* file is left exactly as the call found it.
C31_ManifestWriteDiscipline ==
    InSampleCall =>
        /\ run.writes <= 1
        /\ run.writes = 1 =>
              /\ run.pc = "sampled" /\ run.lookup # "hit" /\ ~run.params.dry_run
              /\ run.identified = 1 /\ run.error = "none"
              /\ run.params.video = "path" => run.k = Len(run.data.speakers) + 1
              /\ fs.manifest = [state |-> "ok", age |-> 0, data |-> run.data]
        /\ (run.pc = "sampled" /\ run.lookup # "hit" /\ ~run.params.dry_run) => run.writes = 1
        /\ (run.pc \in {"identify", "extract", "write", "failed"} \/ run.params.dry_run) =>
              (run.writes = 0 /\ fs.manifest = run.seen)

\* A miss on a local video with two speakers, an older manifest replaced.
C31_Witness ==
    /\ run.pc = "sampled" /\ run.writes = 1
    /\ run.params.video = "path"
    /\ Len(run.data.speakers) = 2
    /\ run.seen.state # "absent"

\* The validation fails with a manifest on disk.
C31_WitnessFailed ==
    /\ run.pc = "failed" /\ run.error = "schema"
    /\ fs.manifest.state = "ok"

Stages == <<"sample", "headshots", "compose">>

\* A run_end_to_end call is under way or just over.
InRun == run.params.entry = "run" /\ run.pc # "idle"

\* C32: in every execution of run_end_to_end the steps list is a prefix of
\* (sample, headshots, compose); no headshot generation call is issued before
\* the sample stage has returned its manifest; the composition call is issued
\* only after the headshot loop has dealt with every speaker, and every
\* headshot passed to it exists on disk.
C32_StageOrdering ==
    InRun =>
        /\ Len(run.steps) <= 3
        /\ \A i \in 1..Len(run.steps) : run.steps[i] = Stages[i]
        /\ (run.hlog # <<>> \/ run.calls.headshot > 0) =>
              /\ Len(run.steps) >= 1
              /\ run.out.manifest
              /\ fs.manifest.state = "ok" /\ fs.manifest.data = run.data
        /\ (run.compose_args # NoArgs \/ run.calls.compose > 0) =>
              /\ Len(run.steps) >= 2
              /\ Len(run.hlog) = Len(run.data.speakers)
              /\ run.out.headshots = run.hpaths
              /\ \A j \in 1..Len(run.compose_args.headshots) :
                    fs.headshots[run.compose_args.headshots[j]] # NoBytes

\* Three speakers, a headshot generated for the last one, and a remote
\* composition call.
C32_Witness ==
    /\ InRun /\ run.pc = "done"
    /\ run.steps = Stages
    /\ Len(run.data.speakers) = 3
    /\ run.hlog[3].did = "generate"
    /\ run.calls.compose = 1

\* The last remote call of the generate_headshot call raised.
CallRaised ==
    /\ hs.pc = "done"
    /\ hs.resps # <<>>
    /\ hs.resps[Len(hs.resps)].exc

HitCase ==
    /\ InSampleCall
    /\ ~run.params.dry_run
    /\ run.seen.state = "ok"
    /\ run.seen.age <= TTL_SECONDS

\* C34: a manifest cache hit is read-only and independent of the request: the
\* call identifies nothing, extracts and crops nothing and does not rewrite
\* the manifest (its age goes on), and it returns the stored manifest
\* whatever video path or URL and whatever key the call passes.
C34_HitReadOnly ==
    HitCase =>
        /\ run.pc = "sampled"
        /\ run.data = run.seen.data
        /\ run.identified = 0 /\ run.calls.identify = 0
        /\ run.k = 0
        /\ run.writes = 0
        /\ fs.manifest = run.seen
        /\ run.error = "none"

\* A manifest written for a local video, a day old, is returned to a call
\* that passes a URL and no key.
C34_Witness ==
    /\ HitCase
    /\ run.params.video = "url" /\ run.params.api_key = "none"
    /\ run.seen.age = TTL_SECONDS
    /\ ~run.data.note
    /\ Len(run.data.speakers) >= 1

\* C35: the two headshots run_end_to_end passes to the composition are two
\* distinct files, of two different speakers of the manifest, for every
\* manifest the validator accepts, speakers with a missing or a repeated id
\* included.
C35_DistinctHeadshots ==
    (InRun /\ run.compose_args # NoArgs) =>
        run.compose_args.headshots[1] # run.compose_args.headshots[2]

====
